---- MODULE Spec2Model ----
(***************************************************************************)
(* Model of the job scrapers of yuvrajinbhakti/getalljobs.  Every Go file  *)
(* of the repository is a standalone program; the variable prog says which *)
(* program a behaviour is a run of, and each program has its own initial   *)
(* predicate, actions and specification.                                   *)
(***************************************************************************)
EXTENDS Integers, Sequences, FiniteSets, TLC

(***************************************************************************)
(* Strings.  Go strings are modelled by TLA+ strings (ASCII only).         *)
(***************************************************************************)
LowerChars == "abcdefghijklmnopqrstuvwxyz"
DigitChars == "0123456789"

CharAt(s, i) == SubSeq(s, i, i)

InChars(c, chars) == \E i \in 1..Len(chars) : CharAt(chars, i) = c

\* the lower-case letter of each upper-case ASCII letter
LowerMap ==
  [
    A |-> "a", B |-> "b", C |-> "c", D |-> "d", E |-> "e", F |-> "f", G |-> "g",
    H |-> "h", I |-> "i", J |-> "j", K |-> "k", L |-> "l", M |-> "m", N |-> "n",
    O |-> "o", P |-> "p", Q |-> "q", R |-> "r", S |-> "s", T |-> "t", U |-> "u",
    V |-> "v", W |-> "w", X |-> "x", Y |-> "y", Z |-> "z" ]

\* unicode.ToLower on one ASCII character
LowerChar(c) == IF c \in DOMAIN LowerMap THEN LowerMap[c] ELSE c

\* strings.ToLower: every character lowered (the text is split in halves to
\* keep the recursion shallow)
RECURSIVE ToLower(_)
ToLower(s) ==
  IF Len(s) <= 1 THEN LowerChar(s)
  ELSE LET half == Len(s) \div 2 IN
       ToLower(SubSeq(s, 1, half)) \o ToLower(SubSeq(s, half + 1, Len(s)))

\* strings.ReplaceAll(s, old, new) for a one-character old
RECURSIVE ReplaceAll(_, _, _)
ReplaceAll(s, old, new) ==
  IF Len(s) <= 1 THEN (IF s = old THEN new ELSE s)
  ELSE LET half == Len(s) \div 2 IN
       ReplaceAll(SubSeq(s, 1, half), old, new)
         \o ReplaceAll(SubSeq(s, half + 1, Len(s)), old, new)

\* strings.Contains
Contains(s, substr) ==
  \E i \in 1..(Len(s) - Len(substr) + 1) : SubSeq(s, i, i + Len(substr) - 1) = substr

\* the text s has the literal lit starting at position i
HasAt(s, i, lit) ==
  /\ i >= 1
  /\ i + Len(lit) - 1 <= Len(s)
  /\ SubSeq(s, i, i + Len(lit) - 1) = lit

\* the regexp class \s (RE2: tab, newline, form feed, carriage return, space)
IsSpace(c) == c \in {" ", "\t", "\n", "\f", "\r"}

\* the regexp class [\s-]
IsSpaceOrDash(c) == IsSpace(c) \/ c = "-"

\* regexp.MatchString(`<left>[\s-]?<right>`, s)
MatchOptSep(left, right, s) ==
  \E i \in 1..Len(s) :
    /\ HasAt(s, i, left)
    /\ \/ HasAt(s, i + Len(left), right)
       \/ /\ i + Len(left) <= Len(s)
          /\ IsSpaceOrDash(CharAt(s, i + Len(left)))
          /\ HasAt(s, i + Len(left) + 1, right)

\* regexp.MatchString(`0[\s-]?[12]?\s*years?`, s)
MatchZeroYears(s) ==
  \E i \in 1..Len(s) :
    /\ CharAt(s, i) = "0"
    /\ \E a \in {0, 1}, b \in {0, 1}, w \in 0..Len(s) :
         /\ i + a + b + w + 4 <= Len(s)
         /\ a = 1 => IsSpaceOrDash(CharAt(s, i + 1))
         /\ b = 1 => CharAt(s, i + a + 1) \in {"1", "2"}
         /\ \A k \in 1..w : IsSpace(CharAt(s, i + a + b + k))
         /\ HasAt(s, i + a + b + w + 1, "year")

(***************************************************************************)
(* Keyword lists.                                                          *)
(***************************************************************************)
\* 7advanced_remote_scraper.go and 4jobswithnotification.go (second program)
fresherKeywords ==
  << "entry level", "junior", "fresher", "graduate", "trainee", "intern", "associate",
     "no experience", "0-1 years", "0-2 years", "recent graduate", "new grad",
     "entry-level", "beginner", "starting", "career starter", "apprentice" >>

remoteKeywords ==
  << "remote", "work from home", "telecommute", "distributed", "virtual",
     "home office", "anywhere", "location independent", "wfh", "remote-first",
     "fully remote", "100% remote", "remote work", "remote position" >>

excludeKeywords ==
  << "senior", "lead", "principal", "architect", "manager", "director", "head of",
     "5+ years", "10+ years", "experienced", "expert", "specialist", "chief",
     "3+ years", "4+ years", "minimum 3", "minimum 5", "at least 3", "at least 5" >>

\* 6fresher_remote_scraper.go
fjsFresherKeywords ==
  << "entry level", "junior", "fresher", "graduate", "trainee", "intern",
     "no experience", "0-1 years", "0-2 years", "recent graduate",
     "entry-level", "beginner", "associate", "new grad", "starting" >>

fjsRemoteKeywords ==
  << "remote", "work from home", "telecommute", "distributed",
     "home office", "anywhere", "location independent", "wfh" >>

fjsExcludeKeywords ==
  << "senior", "lead", "principal", "architect", "manager", "director",
     "5+ years", "10+ years", "experienced", "expert", "specialist" >>

\* some keyword of the list is a substring of the text
ContainsAny(combined, keywords) ==
  \E k \in 1..Len(keywords) : Contains(combined, keywords[k])

(***************************************************************************)
(* The classifier.                                                         *)
(***************************************************************************)
\* the pattern list of JobScraper.isFresherJob
MatchPatterns(combined) ==
  \/ MatchZeroYears(combined)
  \/ MatchOptSep("entry", "level", combined)
  \/ MatchOptSep("new", "grad", combined)
  \/ MatchOptSep("no", "experience", combined)
  \/ MatchOptSep("recent", "graduate", combined)

\* the pattern list of FresherJobScraper.isFresherJob
fjsMatchPatterns(combined) ==
  \/ MatchZeroYears(combined)
  \/ MatchOptSep("entry", "level", combined)
  \/ MatchOptSep("new", "grad", combined)

\* isFresherJob with the fresher keywords tested before the exclusions
isFresherJob_FresherFirst(title, description) ==
  LET combined == ToLower(title \o " " \o description) IN
  IF ContainsAny(combined, fresherKeywords) THEN TRUE
  ELSE IF ContainsAny(combined, excludeKeywords) THEN FALSE
  ELSE MatchPatterns(combined)

\* JobScraper.isFresherJob
isFresherJob(title, description) ==
  LET combined == ToLower(title \o " " \o description) IN
  IF ContainsAny(combined, excludeKeywords) THEN FALSE
  ELSE IF ContainsAny(combined, fresherKeywords) THEN TRUE
  ELSE MatchPatterns(combined)

\* JobScraper.isRemoteJob
isRemoteJob(title, location, description) ==
  LET combined == ToLower(title \o " " \o location \o " " \o description) IN
  ContainsAny(combined, remoteKeywords)

\* FresherJobScraper.isFresherJob
fjsIsFresherJob(title, description) ==
  LET combined == ToLower(title \o " " \o description) IN
  IF ContainsAny(combined, fjsExcludeKeywords) THEN FALSE
  ELSE IF ContainsAny(combined, fjsFresherKeywords) THEN TRUE
  ELSE fjsMatchPatterns(combined)

\* FresherJobScraper.isRemoteJob
fjsIsRemoteJob(title, location, description) ==
  LET combined == ToLower(title \o " " \o location \o " " \o description) IN
  ContainsAny(combined, fjsRemoteKeywords)

(***************************************************************************)
(* Record identity.                                                        *)
(***************************************************************************)
\* generateJobID without the lowercasing of the company
generateJobID_NoLower(title, company) ==
  ReplaceAll(company, " ", "_") \o "_" \o ReplaceAll(ToLower(title), " ", "_")

\* JobScraper.generateJobID
generateJobID(title, company) ==
  ReplaceAll(ToLower(company), " ", "_") \o "_" \o ReplaceAll(ToLower(title), " ", "_")


\* strings.TrimSpace (ASCII white space)
RECURSIVE TrimLeft(_)
TrimLeft(s) ==
  IF s # "" /\ IsSpace(CharAt(s, 1)) THEN TrimLeft(SubSeq(s, 2, Len(s))) ELSE s

RECURSIVE TrimRight(_)
TrimRight(s) ==
  IF s # "" /\ IsSpace(CharAt(s, Len(s))) THEN TrimRight(SubSeq(s, 1, Len(s) - 1)) ELSE s

TrimSpace(s) == TrimRight(TrimLeft(s))

(***************************************************************************)
(* State.                                                                  *)
(***************************************************************************)
VARIABLES
  prog,       \* the program that runs: "advanced", "fresher", ...
  csv,        \* the CSV file of the run: whether it was created, and its rows
  rotation,   \* js.proxyList, js.currentProxy and the proxies handed out so far
  mainpc,     \* position of the main goroutine
  iter,       \* loop counter of the main goroutine
  jobs,       \* js.jobs
  seenJobs,   \* js.seenJobs: the set of keys that map to true
  jobsMutex,  \* js.jobsMutex: its holder, or NoHolder
  tokens,     \* tokens in the bucket of js.rateLimiter
  wg,         \* counter of the sync.WaitGroup of the scrape call
  pc,         \* position of every other goroutine
  local,      \* local variables of every other goroutine
  ret,        \* value returned by the scrape call
  errorLogged,     \* whether a scraping error has been logged
  fetched,    \* listing elements handed to OnHTML callbacks so far
  submitted,  \* history: the jobs passed to addJob so far
  firstJob,   \* history: job ID -> the first job passed to addJob with that ID
  collectorWg,\* in-flight requests of each asynchronous collector
  handlers,   \* OnHTML callbacks registered on the shared collector
  redis       \* keys of the Redis store

vars == << prog, csv, rotation, mainpc, iter, jobs, seenJobs, jobsMutex, tokens, wg, pc, local,
           ret, errorLogged, fetched, submitted, firstJob, collectorWg, handlers, redis >>

\* state of the asynchronous collectors and of the Redis-backed scraper
redisVars == << handlers, redis >>
extVars == << collectorWg, redisVars >>

mainVars == << mainpc, iter, ret >>
jobVars == << jobs, seenJobs >>
histVars == << submitted, firstJob >>

NoHolder == "none"
NoJob == [ID |-> "none"]
NoRet == "running"
NoFile == [created |-> FALSE, rows |-> << >>, ioerr |-> FALSE]
NoProxies == [proxyList |-> << >>, currentProxy |-> 0, returned |-> << >>]
Today == "2006-01-02"

\* the zero value of RemoteJob
ZeroRemoteJob ==
  [ID |-> "", Platform |-> "", Title |-> "", Company |-> "", Location |-> "",
   Description |-> "", Salary |-> "", PostedDate |-> "", JobType |-> "",
   Experience |-> "", Tags |-> << >>, IsRemote |-> FALSE, IsFresher |-> FALSE,
   URL |-> "", ApplyURL |-> ""]

\* the function f as a table: the comparison enumerates f, so that its values
\* are computed once and not on every application
Tabulated(f) == IF f = f THEN f ELSE f

\* the fields a composite literal sets, over the zero value
WithFields(zero, fields) ==
  [f \in DOMAIN zero |-> IF f \in DOMAIN fields THEN fields[f] ELSE zero[f]]

(***************************************************************************)
(* Bounds and inputs.                                                      *)
(***************************************************************************)
\* iterations of the sample loop that are explored (the program runs 50)
NumSamples == 1
\* listing elements on all the fetched pages of a run
MaxElems == 2

\* the listing elements a fetched page can hold: the raw text of the title
\* node, of the company node and of the tags/location node
PageElements ==
  { [title |-> " Junior Engineer ", company |-> "Acme", extra |-> "Remote"],
    [title |-> "Senior Engineer", company |-> "Acme", extra |-> "Remote"] }

(***************************************************************************)
(* Advanced remote scraper (7advanced_remote_scraper.go).                  *)
(***************************************************************************)
BurstAdv == 3

Sources ==
  << "scrapeRemoteOK", "scrapeWeWorkRemotely", "scrapeFlexJobs",
     "scrapeJustRemote", "scrapeRemoteCo" >>

SourceSet == { Sources[i] : i \in 1..Len(Sources) }

\* the OnHTML callback of each scrape function, up to the addJob call: the job
\* it builds from a listing element, or NoJob when the element is skipped
OnHTMLJob(src, e) ==
  LET title == TrimSpace(e.title)
      company == TrimSpace(e.company)
      extra == TrimSpace(e.extra)
      made(fields) ==
        WithFields(ZeroRemoteJob,
                   [Title |-> title, Company |-> company, IsRemote |-> TRUE,
                    IsFresher |-> TRUE, PostedDate |-> Today] @@ fields)
  IN
  IF title = "" \/ company = "" THEN NoJob
  ELSE CASE src = "scrapeRemoteOK" ->
              IF isFresherJob(title, extra)
                THEN made([Platform |-> "RemoteOK", Location |-> "Remote",
                           Description |-> extra, URL |-> "https://remoteok.io"])
                ELSE NoJob
         [] src = "scrapeWeWorkRemotely" ->
              IF isFresherJob(title, "") /\ isRemoteJob(title, extra, "")
                THEN made([Platform |-> "WeWorkRemotely", Location |-> extra,
                           URL |-> "https://weworkremotely.com"])
                ELSE NoJob
         [] src = "scrapeFlexJobs" ->
              IF isFresherJob(title, "") /\ isRemoteJob(title, extra, "")
                THEN made([Platform |-> "FlexJobs", Location |-> extra,
                           URL |-> "https://flexjobs.com"])
                ELSE NoJob
         [] src = "scrapeJustRemote" ->
              IF isFresherJob(title, "")
                THEN made([Platform |-> "JustRemote", Location |-> "Remote",
                           URL |-> "https://justremote.co"])
                ELSE NoJob
         [] src = "scrapeRemoteCo" ->
              IF isFresherJob(title, "")
                THEN made([Platform |-> "Remote.co", Location |-> "Remote",
                           URL |-> "https://remote.co"])
                ELSE NoJob

\* OnHTMLJob on every source and listing element, computed once
OnHTMLJobs ==
  Tabulated([src \in SourceSet |-> [e \in PageElements |-> OnHTMLJob(src, e)]])

\* the draws of generateMoreSampleJobs that are explored
SampleCompanies == { "TechCorp" }
SamplePlatforms == { "Indeed" }
SampleTemplates ==
  { [titleTemplate |-> "Junior Software Engineer",
     description |-> "Looking for a motivated junior developer to join our growing team. Training provided.",
     salary |-> "$45,000 - $65,000"],
    [titleTemplate |-> "Backend Developer Trainee",
     description |-> "Join our backend team and learn from experienced developers.",
     salary |-> "$40,000 - $60,000"] }

\* the job one iteration of generateMoreSampleJobs builds
SampleJob(template, company, platform) ==
  WithFields(ZeroRemoteJob,
             [Platform |-> platform, Title |-> template.titleTemplate,
              Company |-> company, Location |-> "Remote",
              Description |-> template.description, Salary |-> template.salary,
              PostedDate |-> Today, JobType |-> "Full-time",
              Experience |-> "Entry Level", IsRemote |-> TRUE, IsFresher |-> TRUE,
              URL |-> "https://" \o ToLower(platform) \o ".com/job/1"])

InitAdvanced ==
  /\ prog = "advanced"
  /\ csv = NoFile
  /\ rotation = NoProxies
  /\ mainpc = "samples"
  /\ iter = 0
  /\ jobs = << >>
  /\ seenJobs = {}
  /\ jobsMutex = NoHolder
  /\ tokens = BurstAdv
  /\ wg = 0
  /\ pc = [s \in SourceSet |-> "unstarted"]
  /\ local = [s \in SourceSet |-> [calls |-> 0, job |-> NoJob, seen |-> FALSE]]
  /\ ret = NoRet
  /\ errorLogged = FALSE
  /\ fetched = 0
  /\ submitted = {}
  /\ firstJob = << >>
  /\ collectorWg = << >>
  /\ handlers = << >>
  /\ redis = {}

\* addJob with a key that also holds the platform
JobKey_WithPlatform(job) ==
  generateJobID(job.Title, job.Company) \o "_" \o ToLower(job.Platform)

\* addJob: jobID := js.generateJobID(job.Title, job.Company)
JobKey(job) == generateJobID(job.Title, job.Company)

\* addJob where a job whose ID was seen replaces the entry that holds the ID
AddJobBody_Overwrite(job, seen, js) ==
  LET jobID == JobKey(job)
      new == [job EXCEPT !.ID = jobID]
  IN
  IF ~seen
    THEN [jobs |-> Append(js.jobs, new), seenJobs |-> js.seenJobs \cup {jobID}]
    ELSE [jobs |-> [i \in 1..Len(js.jobs) |->
                     IF js.jobs[i].ID = jobID THEN new ELSE js.jobs[i]],
          seenJobs |-> js.seenJobs]

\* the body of addJob, run by the caller who holds the mutex, given what the
\* caller read from js.seenJobs[jobID]
AddJobBody(job, seen, js) ==
  LET jobID == JobKey(job) IN
  IF ~seen
    THEN [jobs |-> Append(js.jobs, [job EXCEPT !.ID = jobID]),
          seenJobs |-> js.seenJobs \cup {jobID}]
    ELSE js

\* history of the addJob calls
Record(job) ==
  LET jobID == JobKey(job) IN
  /\ submitted' = submitted \cup { job }
  /\ firstJob' = IF jobID \in DOMAIN firstJob THEN firstJob
                 ELSE firstJob @@ (jobID :> job)

\* one iteration of the loop of generateMoreSampleJobs; no other goroutine
\* runs yet, so the addJob call is one step
GenerateSample ==
  /\ prog = "advanced"
  /\ mainpc = "samples"
  /\ iter < NumSamples
  /\ \E template \in SampleTemplates, company \in SampleCompanies,
        platform \in SamplePlatforms :
       LET job == SampleJob(template, company, platform)
           js == AddJobBody(job, JobKey(job) \in seenJobs,
                            [jobs |-> jobs, seenJobs |-> seenJobs])
       IN /\ jobs' = js.jobs
          /\ seenJobs' = js.seenJobs
          /\ Record(job)
  /\ iter' = iter + 1
  /\ UNCHANGED << prog, rotation, csv, extVars, mainpc, ret, jobsMutex, tokens, wg, pc, local, errorLogged, fetched >>

\* the sample loop ends; ScrapeAllSources goes on to launch the sources
SamplesDone ==
  /\ prog = "advanced"
  /\ mainpc = "samples"
  /\ iter = NumSamples
  /\ mainpc' = "launch"
  /\ iter' = 1
  /\ UNCHANGED << prog, rotation, csv, extVars, ret, jobVars, jobsMutex, tokens, wg, pc, local, errorLogged,
                  fetched, histVars >>

\* wg.Add(1); go func(scrapeFunc) {...}(source)
Launch ==
  /\ prog = "advanced"
  /\ mainpc = "launch"
  /\ iter <= Len(Sources)
  /\ wg' = wg + 1
  /\ pc' = [pc EXCEPT ![Sources[iter]] = "limiter"]
  /\ iter' = iter + 1
  /\ mainpc' = IF iter = Len(Sources) THEN "wgwait" ELSE "launch"
  /\ UNCHANGED << prog, rotation, csv, extVars, ret, jobVars, jobsMutex, tokens, local, errorLogged, fetched,
                  histVars >>

\* the token bucket gains a token (one per second); the launches take no
\* time, so time only passes while a source waits on the empty bucket
Refill ==
  /\ prog = "advanced"
  /\ tokens = 0
  /\ \E src \in SourceSet : pc[src] = "limiter"
  /\ tokens' = tokens + 1
  /\ UNCHANGED << prog, rotation, csv, extVars, mainVars, jobVars, jobsMutex, wg, pc, local, errorLogged,
                  fetched, histVars >>

\* js.rateLimiter.Wait gives up with an error when the bucket is empty: the
\* goroutine logs the error and returns without calling scrapeFunc
RateLimiterWait_FailWhenEmpty(src) ==
  /\ prog = "advanced"
  /\ pc[src] = "limiter"
  /\ IF tokens > 0
       THEN /\ tokens' = tokens - 1
            /\ pc' = [pc EXCEPT ![src] = "scrape"]
            /\ local' = [local EXCEPT ![src].calls = @ + 1]
            /\ wg' = wg
       ELSE /\ pc' = [pc EXCEPT ![src] = "done"]
            /\ wg' = wg - 1
            /\ UNCHANGED << tokens, local >>
  /\ UNCHANGED << prog, rotation, csv, extVars, mainVars, jobVars, jobsMutex, errorLogged, fetched,
                  histVars >>

\* js.rateLimiter.Wait(context.Background()) blocks until a token is there and
\* returns nil (a wait for one token without deadline cannot fail); the
\* goroutine then calls scrapeFunc()
RateLimiterWait(src) ==
  /\ prog = "advanced"
  /\ pc[src] = "limiter"
  /\ tokens > 0
  /\ tokens' = tokens - 1
  /\ pc' = [pc EXCEPT ![src] = "scrape"]
  /\ local' = [local EXCEPT ![src].calls = @ + 1]
  /\ UNCHANGED << prog, rotation, csv, extVars, mainVars, jobVars, jobsMutex, wg, errorLogged, fetched,
                  histVars >>

\* the same return, but without the wg.Done()
VisitFail_NoDone(src) ==
  /\ prog = "advanced"
  /\ pc[src] = "scrape"
  /\ errorLogged' = TRUE
  /\ pc' = [pc EXCEPT ![src] = "done"]
  /\ UNCHANGED << prog, rotation, csv, extVars, mainVars, jobVars, jobsMutex, tokens, wg,
                  local, fetched, histVars >>

\* scrapeFunc(): c.Visit fails, the error is logged and the goroutine returns
\* (deferred wg.Done())
VisitFail(src) ==
  /\ prog = "advanced"
  /\ pc[src] = "scrape"
  /\ errorLogged' = TRUE
  /\ pc' = [pc EXCEPT ![src] = "done"]
  /\ wg' = wg - 1
  /\ UNCHANGED << prog, rotation, csv, extVars, mainVars, jobVars, jobsMutex, tokens, local, fetched,
                  histVars >>

\* scrapeFunc(): c.Visit fetches the page and starts on its listings
VisitPage(src) ==
  /\ prog = "advanced"
  /\ pc[src] = "scrape"
  /\ pc' = [pc EXCEPT ![src] = "html"]
  /\ UNCHANGED << prog, rotation, csv, extVars, mainVars, jobVars, jobsMutex, tokens, wg, local, errorLogged,
                  fetched, histVars >>

\* the OnHTML callback runs on the next listing of the page
OnHTML(src) ==
  /\ prog = "advanced"
  /\ pc[src] = "html"
  /\ fetched < MaxElems
  /\ fetched' = fetched + 1
  /\ \E e \in PageElements :
       LET job == OnHTMLJobs[src][e] IN
       IF job = NoJob
         THEN UNCHANGED << local, pc >>
         ELSE /\ local' = [local EXCEPT ![src].job = job]
              /\ pc' = [pc EXCEPT ![src] = "addJob"]
  /\ UNCHANGED << prog, rotation, csv, extVars, mainVars, jobVars, jobsMutex, tokens, wg, errorLogged, histVars >>

\* addJob entered without waiting for js.jobsMutex: the read of
\* js.seenJobs[jobID] is no longer atomic with the append
AddJobLock_NoMutex(src) ==
  /\ prog = "advanced"
  /\ pc[src] = "addJob"
  /\ jobsMutex' = src
  /\ local' = [local EXCEPT ![src].seen = JobKey(local[src].job) \in seenJobs]
  /\ pc' = [pc EXCEPT ![src] = "locked"]
  /\ Record(local[src].job)
  /\ UNCHANGED << prog, rotation, csv, extVars, mainVars, jobVars, tokens, wg, errorLogged, fetched >>

\* addJob: js.jobsMutex.Lock() (the caller waits while another holds the
\* mutex), then jobID := js.generateJobID(...) and the read of
\* js.seenJobs[jobID]
AddJobLock(src) ==
  /\ prog = "advanced"
  /\ pc[src] = "addJob"
  /\ jobsMutex = NoHolder
  /\ jobsMutex' = src
  /\ local' = [local EXCEPT ![src].seen = JobKey(local[src].job) \in seenJobs]
  /\ pc' = [pc EXCEPT ![src] = "locked"]
  /\ Record(local[src].job)
  /\ UNCHANGED << prog, rotation, csv, extVars, mainVars, jobVars, tokens, wg, errorLogged, fetched >>

\* addJob: the append and the write of js.seenJobs[jobID] when the ID was not
\* seen, then the deferred js.jobsMutex.Unlock()
AddJobUnlock(src) ==
  /\ prog = "advanced"
  /\ pc[src] = "locked"
  /\ LET js == AddJobBody(local[src].job, local[src].seen,
                          [jobs |-> jobs, seenJobs |-> seenJobs])
     IN /\ jobs' = js.jobs
        /\ seenJobs' = js.seenJobs
  /\ jobsMutex' = NoHolder
  /\ local' = [local EXCEPT ![src].job = NoJob, ![src].seen = FALSE]
  /\ pc' = [pc EXCEPT ![src] = "html"]
  /\ UNCHANGED << prog, rotation, csv, extVars, mainVars, tokens, wg, errorLogged, fetched, histVars >>

\* the page has no more listings: c.Visit returns nil and the goroutine
\* returns (deferred wg.Done())
VisitReturn(src) ==
  /\ prog = "advanced"
  /\ pc[src] = "html"
  /\ pc' = [pc EXCEPT ![src] = "done"]
  /\ wg' = wg - 1
  /\ UNCHANGED << prog, rotation, csv, extVars, mainVars, jobVars, jobsMutex, tokens, local, errorLogged,
                  fetched, histVars >>

\* ScrapeAllSources returning an error when a source has failed
WgWait_ReturnErr ==
  /\ prog = "advanced"
  /\ mainpc = "wgwait"
  /\ wg = 0
  /\ mainpc' = "returned"
  /\ ret' = IF errorLogged THEN "error" ELSE "nil"
  /\ UNCHANGED << prog, rotation, csv, extVars, iter, jobVars, jobsMutex, tokens, wg, pc, local, errorLogged,
                  fetched, histVars >>

\* wg.Wait() returns when the counter is zero; ScrapeAllSources returns nil
WgWait ==
  /\ prog = "advanced"
  /\ mainpc = "wgwait"
  /\ wg = 0
  /\ mainpc' = "returned"
  /\ ret' = "nil"
  /\ UNCHANGED << prog, rotation, csv, extVars, iter, jobVars, jobsMutex, tokens, wg, pc, local, errorLogged,
                  fetched, histVars >>

\* main: scraper.PrintEnhancedStats() takes js.jobsMutex, counts the jobs of
\* js.jobs by platform, salary and company, prints and unlocks
PrintEnhancedStats ==
  /\ prog = "advanced"
  /\ mainpc = "returned"
  /\ jobsMutex = NoHolder
  /\ mainpc' = "stats"
  /\ UNCHANGED << prog, rotation, csv, extVars, iter, ret, jobVars, jobsMutex, tokens, wg, pc, local,
                  errorLogged, fetched, histVars >>

\* the same call, but one that empties js.jobs once the file is written
SaveToCSV_Drain ==
  /\ prog = "advanced"
  /\ mainpc = "stats"
  /\ jobsMutex = NoHolder
  /\ \/ mainpc' = "fatal" /\ errorLogged' = TRUE /\ UNCHANGED jobs
     \/ mainpc' = "saved" /\ jobs' = << >> /\ UNCHANGED errorLogged
  /\ UNCHANGED << prog, rotation, csv, extVars, iter, ret, seenJobs, jobsMutex, tokens, wg, pc, local,
                  fetched, histVars >>

\* fmt.Sprintf("%t", b)
FormatBool(b) == IF b THEN "true" ELSE "false"

\* the same rows, but with the Company and the Title column of the records
\* swapped
CSVRows_SwappedColumns(js) ==
  << << "ID", "Platform", "Title", "Company", "Location", "Description",
        "Salary", "PostedDate", "JobType", "Experience", "IsRemote",
        "IsFresher", "URL" >> >> \o
  [k \in 1..Len(js) |->
     << js[k].ID, js[k].Platform, js[k].Company, js[k].Title, js[k].Location,
        js[k].Description, js[k].Salary, js[k].PostedDate, js[k].JobType,
        js[k].Experience, FormatBool(js[k].IsRemote),
        FormatBool(js[k].IsFresher), js[k].URL >>]

\* SaveToCSV: the rows handed to writer.Write, headers first and then one
\* record per job of js.jobs in the order of the slice
CSVRows(js) ==
  << << "ID", "Platform", "Title", "Company", "Location", "Description",
        "Salary", "PostedDate", "JobType", "Experience", "IsRemote",
        "IsFresher", "URL" >> >> \o
  [k \in 1..Len(js) |->
     << js[k].ID, js[k].Platform, js[k].Title, js[k].Company, js[k].Location,
        js[k].Description, js[k].Salary, js[k].PostedDate, js[k].JobType,
        js[k].Experience, FormatBool(js[k].IsRemote),
        FormatBool(js[k].IsFresher), js[k].URL >>]

\* main: scraper.SaveToCSV(filename), log.Fatalf on its error.  os.Create
\* fails ("failed to create CSV file"), or every row reaches the file, or the
\* file stops taking writes after n rows.  writer is a csv.Writer over a
\* buffered writer: a row is handed to the file when the buffer fills, inside
\* a later writer.Write, or by the deferred writer.Flush().  The headers are
\* shorter than the buffer, so the failure shows in the writer.Write of a
\* record ("failed to write job record"), or in the deferred Flush, whose
\* error nothing reads: SaveToCSV then returns nil.  js.jobsMutex is locked
\* after the headers and unlocked by defer.
SaveToCSV ==
  /\ prog = "advanced"
  /\ mainpc = "stats"
  /\ jobsMutex = NoHolder
  /\ jobsMutex' = NoHolder
  /\ \/ /\ csv' = [csv EXCEPT !.ioerr = TRUE]
        /\ ret' = "failed to create CSV file"
        /\ mainpc' = "fatal" /\ errorLogged' = TRUE
     \/ /\ csv' = [created |-> TRUE, rows |-> CSVRows(jobs), ioerr |-> FALSE]
        /\ ret' = "nil"
        /\ mainpc' = "saved" /\ UNCHANGED errorLogged
     \/ \E n \in 0..Len(jobs) :
          /\ csv' = [created |-> TRUE, rows |-> SubSeq(CSVRows(jobs), 1, n),
                     ioerr |-> TRUE]
          /\ \/ /\ Len(jobs) >= 1
                /\ ret' = "failed to write job record"
                /\ mainpc' = "fatal" /\ errorLogged' = TRUE
             \/ /\ ret' = "nil"
                /\ mainpc' = "saved" /\ UNCHANGED errorLogged
  /\ UNCHANGED << prog, rotation, extVars, iter, jobVars, tokens, wg, pc, local,
                  fetched, histVars >>

SourceStep(src) ==
  \/ RateLimiterWait(src)
  \/ VisitFail(src)
  \/ VisitPage(src)
  \/ OnHTML(src)
  \/ AddJobLock(src)
  \/ AddJobUnlock(src)
  \/ VisitReturn(src)

NextAdvanced ==
  \/ GenerateSample
  \/ SamplesDone
  \/ Launch
  \/ Refill
  \/ \E src \in SourceSet : SourceStep(src)
  \/ WgWait
  \/ PrintEnhancedStats
  \/ SaveToCSV

SpecAdvanced == InitAdvanced /\ [][NextAdvanced]_vars

(***************************************************************************)
(* Fresher remote scraper (6fresher_remote_scraper.go).                    *)
(***************************************************************************)
BurstFresher == 2

\* search titles that are explored (runScraper passes 16)
NumTitles == 2

\* the jobTitles of runScraper
JobTitles ==
  << "software engineer", "web developer", "frontend developer", "backend developer",
     "full stack developer", "junior developer", "entry level developer",
     "python developer", "javascript developer", "react developer", "data analyst",
     "qa engineer", "devops engineer", "ui ux designer", "product manager",
     "business analyst" >>

\* the two goroutines of ScrapeAll
FresherPlatforms == { "Indeed", "RemoteOK" }

\* goroutines: <<platform, 0>> runs scrapeIndeed/scrapeRemoteOK, <<platform, k>>
\* is the request the collector starts for the k-th job title
FresherThreads == FresherPlatforms \X (0..NumTitles)

\* the zero value of FresherJob
ZeroFresherJob ==
  [Platform |-> "", Title |-> "", Company |-> "", Location |-> "",
   Description |-> "", Salary |-> "", PostedDate |-> "", IsRemote |-> FALSE,
   IsFresher |-> FALSE, URL |-> "", ApplyURL |-> ""]

\* url.QueryEscape on letters and spaces
QueryEscape(s) == ReplaceAll(s, " ", "+")

\* the search URL of the k-th job title
SearchURL(platform, k) ==
  IF platform = "Indeed"
    THEN "https://www.indeed.com/jobs?q=" \o QueryEscape(JobTitles[k])
           \o "&l=Remote&explvl=entry_level&fromage=7"
    ELSE "https://remoteok.io/remote-dev-jobs?search=" \o QueryEscape(JobTitles[k])

\* the listing elements a fetched page can hold
FresherElements ==
  { [title |-> "Junior Developer", company |-> "Acme", location |-> "Remote",
     description |-> "", salary |-> "", date |-> "today", href |-> "/job/1"],
    [title |-> "Lead Developer", company |-> "Acme", location |-> "Remote",
     description |-> "junior team", salary |-> "", date |-> "", href |-> ""] }

\* the OnHTML callbacks of scrapeIndeed and scrapeRemoteOK, up to the append
FresherOnHTMLJob(platform, url, e) ==
  LET title == TrimSpace(e.title)
      company == TrimSpace(e.company)
      location == TrimSpace(e.location)
      description == TrimSpace(e.description)
      salary == TrimSpace(e.salary)
      base == IF platform = "Indeed" THEN "https://www.indeed.com"
              ELSE "https://remoteok.io"
      applyLink == IF e.href # "" /\ ~HasAt(e.href, 1, "http")
                     THEN base \o e.href ELSE e.href
      isFresher == fjsIsFresherJob(title, description)
      isRemote == fjsIsRemoteJob(title, location, description)
  IN
  IF title = "" \/ company = "" THEN NoJob
  ELSE IF platform = "Indeed"
    THEN IF isFresher /\ isRemote
           THEN [ZeroFresherJob EXCEPT
                   !.Platform = "Indeed", !.Title = title, !.Company = company,
                   !.Location = location, !.Description = description,
                   !.Salary = salary, !.PostedDate = TrimSpace(e.date),
                   !.IsRemote = isRemote, !.IsFresher = isFresher,
                   !.URL = url, !.ApplyURL = applyLink]
           ELSE NoJob
    ELSE IF isFresher
           THEN [ZeroFresherJob EXCEPT
                   !.Platform = "RemoteOK", !.Title = title, !.Company = company,
                   !.Location = "Remote", !.Description = description,
                   !.Salary = salary, !.IsRemote = TRUE, !.IsFresher = isFresher,
                   !.URL = url, !.ApplyURL = applyLink]
           ELSE NoJob

\* FresherOnHTMLJob on every request and listing element, computed once
FresherOnHTMLJobs ==
  Tabulated([r \in FresherPlatforms \X (1..NumTitles) |->
    [e \in FresherElements |-> FresherOnHTMLJob(r[1], SearchURL(r[1], r[2]), e)]])

InitFresher ==
  /\ prog = "fresher"
  /\ csv = NoFile
  /\ rotation = NoProxies
  /\ mainpc = "launch"
  /\ iter = 0
  /\ jobs = << >>
  /\ seenJobs = {}
  /\ jobsMutex = NoHolder
  /\ tokens = BurstFresher
  /\ wg = 0
  /\ pc = [t \in FresherThreads |-> "unstarted"]
  /\ local = [t \in FresherThreads |-> [i |-> 1, job |-> NoJob]]
  /\ ret = NoRet
  /\ errorLogged = FALSE
  /\ fetched = 0
  /\ submitted = {}
  /\ firstJob = << >>
  /\ collectorWg = [p \in FresherPlatforms |-> 0]
  /\ handlers = << >>
  /\ redis = {}

\* ScrapeAll: wg.Add(1); go func() {...}() for Indeed, then for RemoteOK
FresherLaunch ==
  /\ prog = "fresher"
  /\ mainpc = "launch"
  /\ LET p == IF iter = 0 THEN "Indeed" ELSE "RemoteOK" IN
       pc' = [pc EXCEPT ![<<p, 0>>] = "limiter"]
  /\ wg' = wg + 1
  /\ iter' = iter + 1
  /\ mainpc' = IF iter = 1 THEN "wgwait" ELSE "launch"
  /\ UNCHANGED << prog, rotation, csv, redisVars, collectorWg, ret, jobVars, jobsMutex, tokens,
                  local, errorLogged, fetched, histVars >>

\* the token bucket gains a token (one per 3 seconds) while a goroutine waits
FresherRefill ==
  /\ prog = "fresher"
  /\ tokens = 0
  /\ \E p \in FresherPlatforms : pc[<<p, 0>>] = "limiter"
  /\ tokens' = tokens + 1
  /\ UNCHANGED << prog, rotation, csv, redisVars, collectorWg, mainVars, jobVars, jobsMutex, wg, pc,
                  local, errorLogged, fetched, histVars >>

\* fjs.rateLimiter.Wait(context.Background()) returns nil once a token is there
FresherRateLimiterWait(p) ==
  /\ prog = "fresher"
  /\ pc[<<p, 0>>] = "limiter"
  /\ tokens > 0
  /\ tokens' = tokens - 1
  /\ pc' = [pc EXCEPT ![<<p, 0>>] = "visit"]
  /\ UNCHANGED << prog, rotation, csv, redisVars, collectorWg, mainVars, jobVars, jobsMutex, wg,
                  local, errorLogged, fetched, histVars >>

\* where the loop over jobTitles goes after the visit of title i
AfterVisit(i) == IF i = NumTitles THEN "cwait" ELSE "limiter"

\* c.Visit(searchURL) on the asynchronous collector: the request is started in
\* its own goroutine and Visit returns nil
FresherVisit(p) ==
  /\ prog = "fresher"
  /\ pc[<<p, 0>>] = "visit"
  /\ LET i == local[<<p, 0>>].i IN
       /\ collectorWg' = [collectorWg EXCEPT ![p] = @ + 1]
       /\ pc' = [pc EXCEPT ![<<p, 0>>] = AfterVisit(i), ![<<p, i>>] = "fetch"]
       /\ local' = [local EXCEPT ![<<p, 0>>].i = i + 1]
  /\ UNCHANGED << prog, rotation, csv, redisVars, mainVars, jobVars, jobsMutex, tokens, wg, errorLogged,
                  fetched, histVars >>

\* c.Visit(searchURL) returns an error, which is logged; no request is started
FresherVisitError(p) ==
  /\ prog = "fresher"
  /\ pc[<<p, 0>>] = "visit"
  /\ LET i == local[<<p, 0>>].i IN
       /\ pc' = [pc EXCEPT ![<<p, 0>>] = AfterVisit(i)]
       /\ local' = [local EXCEPT ![<<p, 0>>].i = i + 1]
  /\ UNCHANGED << prog, rotation, csv, redisVars, collectorWg, mainVars, jobVars, jobsMutex, tokens,
                  wg, errorLogged, fetched, histVars >>

\* the scrape function returning without c.Wait(): the goroutine ends
\* (deferred wg.Done()) while requests may be in flight
FresherCollectorWait_NoWait(p) ==
  /\ prog = "fresher"
  /\ pc[<<p, 0>>] = "cwait"
  /\ pc' = [pc EXCEPT ![<<p, 0>>] = "done"]
  /\ wg' = wg - 1
  /\ UNCHANGED << prog, rotation, csv, redisVars, collectorWg, mainVars, jobVars, jobsMutex, tokens,
                  local, errorLogged, fetched, histVars >>

\* c.Wait() returns when no request is in flight; the scrape function returns
\* nil and the goroutine ends (deferred wg.Done())
FresherCollectorWait(p) ==
  /\ prog = "fresher"
  /\ pc[<<p, 0>>] = "cwait"
  /\ collectorWg[p] = 0
  /\ pc' = [pc EXCEPT ![<<p, 0>>] = "done"]
  /\ wg' = wg - 1
  /\ UNCHANGED << prog, rotation, csv, redisVars, collectorWg, mainVars, jobVars, jobsMutex, tokens,
                  local, errorLogged, fetched, histVars >>

\* the request fails: OnError logs it
FresherFetchFail(r) ==
  /\ prog = "fresher"
  /\ pc[r] = "fetch"
  /\ pc' = [pc EXCEPT ![r] = "done"]
  /\ collectorWg' = [collectorWg EXCEPT ![r[1]] = @ - 1]
  /\ UNCHANGED << prog, rotation, csv, redisVars, mainVars, jobVars, jobsMutex, tokens, wg, local,
                  errorLogged, fetched, histVars >>

\* the response arrives and the collector starts on its listings
FresherFetchPage(r) ==
  /\ prog = "fresher"
  /\ pc[r] = "fetch"
  /\ pc' = [pc EXCEPT ![r] = "html"]
  /\ UNCHANGED << prog, rotation, csv, redisVars, collectorWg, mainVars, jobVars, jobsMutex, tokens,
                  wg, local, errorLogged, fetched, histVars >>

\* the OnHTML callback runs on the next listing of the page
FresherOnHTML(r) ==
  /\ prog = "fresher"
  /\ pc[r] = "html"
  /\ fetched < MaxElems
  /\ fetched' = fetched + 1
  /\ \E e \in FresherElements :
       LET job == FresherOnHTMLJobs[r][e] IN
       IF job = NoJob
         THEN UNCHANGED << local, pc >>
         ELSE /\ local' = [local EXCEPT ![r].job = job]
              /\ pc' = [pc EXCEPT ![r] = "append"]
  /\ UNCHANGED << prog, rotation, csv, redisVars, collectorWg, mainVars, jobVars, jobsMutex, tokens,
                  wg, errorLogged, histVars >>

\* fjs.jobsMutex.Lock(); fjs.jobs = append(fjs.jobs, job); fjs.jobsMutex.Unlock()
FresherAppend(r) ==
  /\ prog = "fresher"
  /\ pc[r] = "append"
  /\ jobsMutex = NoHolder
  /\ jobs' = Append(jobs, local[r].job)
  /\ submitted' = submitted \cup { local[r].job }
  /\ local' = [local EXCEPT ![r].job = NoJob]
  /\ pc' = [pc EXCEPT ![r] = "html"]
  /\ UNCHANGED << prog, rotation, csv, redisVars, collectorWg, mainVars, seenJobs, jobsMutex, tokens,
                  wg, errorLogged, fetched, firstJob >>

\* the page has no more listings: the request is done
FresherFetchDone(r) ==
  /\ prog = "fresher"
  /\ pc[r] = "html"
  /\ pc' = [pc EXCEPT ![r] = "done"]
  /\ collectorWg' = [collectorWg EXCEPT ![r[1]] = @ - 1]
  /\ UNCHANGED << prog, rotation, csv, redisVars, mainVars, jobVars, jobsMutex, tokens, wg, local,
                  errorLogged, fetched, histVars >>

\* ScrapeAll: wg.Wait() returns when the counter is zero; ScrapeAll returns nil
FresherWgWait ==
  /\ prog = "fresher"
  /\ mainpc = "wgwait"
  /\ wg = 0
  /\ mainpc' = "returned"
  /\ ret' = "nil"
  /\ UNCHANGED << prog, rotation, csv, redisVars, collectorWg, iter, jobVars, jobsMutex, tokens, wg,
                  pc, local, errorLogged, fetched, histVars >>

\* SaveToCSV of the fresher scraper: the rows handed to writer.Write, headers
\* first and then one record per job of fjs.jobs in the order of the slice
FresherCSVRows(js) ==
  << << "Platform", "Title", "Company", "Location", "Description", "Salary",
        "PostedDate", "IsRemote", "IsFresher", "URL", "ApplyURL" >> >> \o
  [k \in 1..Len(js) |->
     << js[k].Platform, js[k].Title, js[k].Company, js[k].Location,
        js[k].Description, js[k].Salary, js[k].PostedDate,
        FormatBool(js[k].IsRemote), FormatBool(js[k].IsFresher), js[k].URL,
        js[k].ApplyURL >>]

\* runScraper: GetStats, which only reads, and SaveToCSV(filename) with
\* log.Fatalf on its error: os.Create fails, or every row reaches the file, or
\* the file stops taking writes after n rows, which shows as the error of the
\* writer.Write of a record or is lost with the deferred writer.Flush()
FresherSaveToCSV ==
  /\ prog = "fresher"
  /\ mainpc = "returned"
  /\ jobsMutex = NoHolder
  /\ \/ /\ csv' = [csv EXCEPT !.ioerr = TRUE]
        /\ ret' = "create error"
        /\ mainpc' = "fatal" /\ errorLogged' = TRUE
     \/ /\ csv' = [created |-> TRUE, rows |-> FresherCSVRows(jobs),
                   ioerr |-> FALSE]
        /\ ret' = "nil"
        /\ mainpc' = "saved" /\ UNCHANGED errorLogged
     \/ \E n \in 0..Len(jobs) :
          /\ csv' = [created |-> TRUE,
                     rows |-> SubSeq(FresherCSVRows(jobs), 1, n),
                     ioerr |-> TRUE]
          /\ \/ /\ Len(jobs) >= 1
                /\ ret' = "write error"
                /\ mainpc' = "fatal" /\ errorLogged' = TRUE
             \/ /\ ret' = "nil"
                /\ mainpc' = "saved" /\ UNCHANGED errorLogged
  /\ UNCHANGED << prog, rotation, redisVars, collectorWg, iter, jobVars, jobsMutex,
                  tokens, wg, pc, local, fetched, histVars >>

NextFresher ==
  \/ FresherLaunch
  \/ FresherRefill
  \/ \E p \in FresherPlatforms :
       \/ FresherRateLimiterWait(p)
       \/ FresherVisit(p)
       \/ FresherVisitError(p)
       \/ FresherCollectorWait(p)
  \/ \E r \in FresherPlatforms \X (1..NumTitles) :
       \/ FresherFetchFail(r)
       \/ FresherFetchPage(r)
       \/ FresherOnHTML(r)
       \/ FresherAppend(r)
       \/ FresherFetchDone(r)
  \/ FresherWgWait
  \/ FresherSaveToCSV

SpecFresher == InitFresher /\ [][NextFresher]_vars

(***************************************************************************)
(* Redis-backed scraper (the program listed in NOTIFICATION_SETUP.md).     *)
(***************************************************************************)
BurstRedis == 2

\* initializePlatforms: name -> base URL, query path and selectors
Platforms ==
  [ LinkedIn |-> [BaseURL |-> "https://www.linkedin.com", QueryPath |-> "/jobs/search",
                  JobContainer |-> ".base-card"],
    Indeed |-> [BaseURL |-> "https://www.indeed.com", QueryPath |-> "/jobs",
                JobContainer |-> ".job_seen_beacon"] ]

PlatformNames == << "LinkedIn", "Indeed" >>

RedisPlatforms == { PlatformNames[i] : i \in 1..Len(PlatformNames) }

\* goroutines: <<platform, 0>> runs Scrape, <<platform, 1>> is the request the
\* shared collector starts for its Visit
RedisThreads == RedisPlatforms \X {0, 1}

\* the -title and -location flags of the run
FlagTitle == "junior engineer"
FlagLocation == "remote"

commonSkills ==
  << "python", "java", "javascript", "golang", "react", "aws", "docker",
     "kubernetes", "sql", "nosql", "git", "agile", "rust", "c++",
     "machine learning", "ai", "cloud", "devops", "nodejs", "angular" >>

\* sanitizeText: strings.Join(strings.Fields(text), " ") after TrimSpace
RECURSIVE CollapseSpaces(_)
CollapseSpaces(s) ==
  IF s = "" THEN ""
  ELSE IF IsSpace(CharAt(s, 1))
    THEN " " \o CollapseSpaces(TrimLeft(s))
    ELSE CharAt(s, 1) \o CollapseSpaces(SubSeq(s, 2, Len(s)))

sanitizeText(text) == CollapseSpaces(TrimSpace(text))

\* extractSkills
extractSkills(text) ==
  SelectSeq(commonSkills, LAMBDA skill : Contains(ToLower(text), ToLower(skill)))

\* the listing elements a fetched page can hold
RedisElements ==
  { [container |-> ".base-card", title |-> "Junior  Engineer", company |-> "Acme",
     location |-> " Remote", skills |-> "Golang, SQL"],
    [container |-> ".job_seen_beacon", title |-> "Junior Engineer", company |-> "Acme",
     location |-> "Berlin", skills |-> ""],
    [container |-> ".base-card", title |-> "", company |-> "Acme",
     location |-> "", skills |-> ""] }

\* the Job the OnHTML callback registered by Scrape(platform) builds from a
\* listing element of the page fetched by request r
RedisOnHTMLJob(platform, r, e) ==
  [ID |-> "", Platform |-> platform, Title |-> sanitizeText(e.title),
   Company |-> sanitizeText(e.company), Location |-> sanitizeText(e.location),
   Description |-> "", Salary |-> "", PostedDate |-> "",
   URL |-> Platforms[r[1]].BaseURL \o Platforms[r[1]].QueryPath \o "?q="
             \o QueryEscape(FlagTitle) \o "&l=" \o QueryEscape(FlagLocation),
   Skills |-> extractSkills(e.skills), AddedAt |-> "now"]

\* RedisOnHTMLJob on every callback, request and listing element, computed once
RedisOnHTMLJobs ==
  Tabulated([h \in RedisPlatforms |-> [r \in RedisPlatforms \X {1} |->
    [e \in RedisElements |-> RedisOnHTMLJob(h, r, e)]]])

\* the key of isNewJob
RedisJobID(job) == job.Platform \o "-" \o job.Company \o "-" \o job.Title

\* keys a previous run may have left in the Redis store
PriorKeys == { "Indeed-Acme-Junior Engineer" }

InitRedis ==
  /\ prog = "redis"
  /\ csv = NoFile
  /\ rotation = NoProxies
  /\ mainpc = "launch"
  /\ iter = 1
  /\ jobs = << >>
  /\ seenJobs = {}
  /\ jobsMutex = NoHolder
  /\ tokens = BurstRedis
  /\ wg = 0
  /\ pc = [t \in RedisThreads |-> "unstarted"]
  /\ local = [t \in RedisThreads |-> [job |-> NoJob, jobID |-> "", new |-> FALSE]]
  /\ ret = NoRet
  /\ errorLogged = FALSE
  /\ fetched = 0
  /\ submitted = {}
  /\ firstJob = << >>
  /\ collectorWg = 0
  /\ handlers = << >>
  /\ redis \in SUBSET PriorKeys

\* main: wg.Add(1); go func(p Platform) {...}(platform)
RedisLaunch ==
  /\ prog = "redis"
  /\ mainpc = "launch"
  /\ pc' = [pc EXCEPT ![<<PlatformNames[iter], 0>>] = "limiter"]
  /\ wg' = wg + 1
  /\ iter' = iter + 1
  /\ mainpc' = IF iter = Len(PlatformNames) THEN "wgwait" ELSE "launch"
  /\ UNCHANGED << prog, rotation, csv, extVars, ret, jobVars, jobsMutex, tokens, local, errorLogged,
                  fetched, histVars >>

\* Scrape: js.rateLimiter.Wait(context.Background()); the two calls of a run
\* find the two tokens of the burst
RedisRateLimiterWait(p) ==
  /\ prog = "redis"
  /\ pc[<<p, 0>>] = "limiter"
  /\ tokens > 0
  /\ tokens' = tokens - 1
  /\ pc' = [pc EXCEPT ![<<p, 0>>] = "register"]
  /\ UNCHANGED << prog, rotation, csv, extVars, mainVars, jobVars, jobsMutex, wg, local, errorLogged,
                  fetched, histVars >>

\* Scrape: js.collector.OnHTML(platform.Selector.JobContainer, ...) on the
\* collector all the platforms share
RedisRegister(p) ==
  /\ prog = "redis"
  /\ pc[<<p, 0>>] = "register"
  /\ handlers' = Append(handlers, p)
  /\ pc' = [pc EXCEPT ![<<p, 0>>] = "visit"]
  /\ UNCHANGED << prog, rotation, csv, collectorWg, redis, mainVars, jobVars, jobsMutex, tokens, wg,
                  local, errorLogged, fetched, histVars >>

\* Scrape: js.collector.Visit(searchURL) starts the request and returns nil
RedisVisit(p) ==
  /\ prog = "redis"
  /\ pc[<<p, 0>>] = "visit"
  /\ collectorWg' = collectorWg + 1
  /\ pc' = [pc EXCEPT ![<<p, 0>>] = "cwait", ![<<p, 1>>] = "fetch"]
  /\ UNCHANGED << prog, rotation, csv, redisVars, mainVars, jobVars, jobsMutex, tokens, wg, local,
                  errorLogged, fetched, histVars >>

\* Scrape: js.collector.Visit(searchURL) returns an error, which is logged
RedisVisitError(p) ==
  /\ prog = "redis"
  /\ pc[<<p, 0>>] = "visit"
  /\ pc' = [pc EXCEPT ![<<p, 0>>] = "cwait"]
  /\ UNCHANGED << prog, rotation, csv, extVars, mainVars, jobVars, jobsMutex, tokens, wg, local,
                  errorLogged, fetched, histVars >>

\* Scrape: js.collector.Wait() returns when the shared collector has no
\* request in flight; the goroutine ends (deferred wg.Done())
RedisCollectorWait(p) ==
  /\ prog = "redis"
  /\ pc[<<p, 0>>] = "cwait"
  /\ collectorWg = 0
  /\ pc' = [pc EXCEPT ![<<p, 0>>] = "done"]
  /\ wg' = wg - 1
  /\ UNCHANGED << prog, rotation, csv, extVars, mainVars, jobVars, jobsMutex, tokens, local, errorLogged,
                  fetched, histVars >>

\* the request fails
RedisFetchFail(r) ==
  /\ prog = "redis"
  /\ pc[r] = "fetch"
  /\ pc' = [pc EXCEPT ![r] = "done"]
  /\ collectorWg' = collectorWg - 1
  /\ UNCHANGED << prog, rotation, csv, redisVars, mainVars, jobVars, jobsMutex, tokens, wg, local,
                  errorLogged, fetched, histVars >>

\* the response arrives and the collector starts on its listings
RedisFetchPage(r) ==
  /\ prog = "redis"
  /\ pc[r] = "fetch"
  /\ pc' = [pc EXCEPT ![r] = "html"]
  /\ UNCHANGED << prog, rotation, csv, extVars, mainVars, jobVars, jobsMutex, tokens, wg, local,
                  errorLogged, fetched, histVars >>

\* a registered OnHTML callback runs on a listing its selector matches; a
\* listing without title or company is dropped before isNewJob
RedisOnHTML(r) ==
  /\ prog = "redis"
  /\ pc[r] = "html"
  /\ fetched < MaxElems
  /\ fetched' = fetched + 1
  /\ \E k \in 1..Len(handlers), e \in RedisElements :
       LET job == RedisOnHTMLJobs[handlers[k]][r][e] IN
       /\ e.container = Platforms[handlers[k]].JobContainer
       /\ IF job.Title # "" /\ job.Company # ""
            THEN /\ local' = [local EXCEPT ![r].job = job]
                 /\ pc' = [pc EXCEPT ![r] = "isNewJob"]
            ELSE UNCHANGED << local, pc >>
  /\ UNCHANGED << prog, rotation, csv, extVars, mainVars, jobVars, jobsMutex, tokens, wg, errorLogged,
                  histVars >>

\* the answers of js.redis.Exists(ctx, jobID).Result()
ExistsAnswers(jobID) == { IF jobID \in redis THEN "1" ELSE "0", "error" }

\* isNewJob without the look-up in js.seenJobs
IsNewJobResult_NoSeenCheck(jobID, answer) ==
  IF answer = "error" THEN [new |-> TRUE, record |-> FALSE]
  ELSE IF answer = "1" THEN [new |-> FALSE, record |-> FALSE]
  ELSE [new |-> TRUE, record |-> TRUE]

\* isNewJob, run under js.seenJobMutex: what it returns, and whether it
\* records the key in js.seenJobs and in Redis
IsNewJobResult(jobID, answer) ==
  IF jobID \in seenJobs THEN [new |-> FALSE, record |-> FALSE]
  ELSE IF answer = "error" THEN [new |-> TRUE, record |-> FALSE]
  ELSE IF answer = "1" THEN [new |-> FALSE, record |-> FALSE]
  ELSE [new |-> TRUE, record |-> TRUE]

\* the call js.isNewJob(job) of the OnHTML callback
RedisIsNewJob(r) ==
  /\ prog = "redis"
  /\ pc[r] = "isNewJob"
  /\ LET jobID == RedisJobID(local[r].job) IN
     \E answer \in ExistsAnswers(jobID) :
       LET res == IsNewJobResult(jobID, answer) IN
       /\ seenJobs' = IF res.record THEN seenJobs \cup {jobID} ELSE seenJobs
       /\ redis' = IF res.record THEN redis \cup {jobID} ELSE redis
       /\ pc' = [pc EXCEPT ![r] = IF res.new THEN "append" ELSE "html"]
       /\ local' = [local EXCEPT ![r] = [job |-> IF res.new THEN @.job ELSE NoJob,
                                         jobID |-> jobID, new |-> res.new]]
  /\ submitted' = submitted \cup { local[r].job }
  /\ UNCHANGED << prog, rotation, csv, collectorWg, handlers, mainVars, jobs, jobsMutex, tokens, wg,
                  errorLogged, fetched, firstJob >>

\* js.jobsMutex.Lock(); js.jobs = append(js.jobs, job); js.jobsMutex.Unlock();
\* a failure of sendWhatsAppMessage is logged
RedisAppend(r) ==
  /\ prog = "redis"
  /\ pc[r] = "append"
  /\ jobsMutex = NoHolder
  /\ jobs' = Append(jobs, local[r].job)
  /\ local' = [local EXCEPT ![r].job = NoJob]
  /\ pc' = [pc EXCEPT ![r] = "html"]
  /\ UNCHANGED << prog, rotation, csv, extVars, mainVars, seenJobs, jobsMutex, tokens, wg, errorLogged,
                  fetched, histVars >>

\* the page has no more listings: the request is done
RedisFetchDone(r) ==
  /\ prog = "redis"
  /\ pc[r] = "html"
  /\ pc' = [pc EXCEPT ![r] = "done"]
  /\ collectorWg' = collectorWg - 1
  /\ UNCHANGED << prog, rotation, csv, redisVars, mainVars, jobVars, jobsMutex, tokens, wg, local,
                  errorLogged, fetched, histVars >>

\* main: wg.Wait() returns when the counter is zero
RedisWgWait ==
  /\ prog = "redis"
  /\ mainpc = "wgwait"
  /\ wg = 0
  /\ mainpc' = "returned"
  /\ UNCHANGED << prog, rotation, csv, extVars, iter, ret, jobVars, jobsMutex, tokens, wg, pc, local,
                  errorLogged, fetched, histVars >>

NextRedis ==
  \/ RedisLaunch
  \/ \E p \in RedisPlatforms :
       \/ RedisRateLimiterWait(p)
       \/ RedisRegister(p)
       \/ RedisVisit(p)
       \/ RedisVisitError(p)
       \/ RedisCollectorWait(p)
  \/ \E r \in RedisPlatforms \X {1} :
       \/ RedisFetchFail(r)
       \/ RedisFetchPage(r)
       \/ RedisOnHTML(r)
       \/ RedisIsNewJob(r)
       \/ RedisAppend(r)
       \/ RedisFetchDone(r)
  \/ RedisWgWait

SpecRedis == InitRedis /\ [][NextRedis]_vars

(***************************************************************************)
(* The classifier as a function: the inputs are drawn by the initial       *)
(* predicate and one step applies the classifiers of both scrapers.        *)
(***************************************************************************)
ClassifierTitles ==
  { "Junior Developer", "JUNIOR DEVELOPER", "junior   developer", "Senior Engineer",
    "Junior Team Lead", "entry level analyst", "Entry  Level Analyst", "Developer",
    "Support Specialist Intern" }

ClassifierDescriptions ==
  { "", "5+ years required", "entry level, remote", "0 to 2 years",
    "0 2 years of practice", "10 years", "New-Grads welcome, Senior mentors" }

ClassifierLocations == { "Remote", "Berlin" }

InitClassifier ==
  /\ prog = "classifier"
  /\ csv = NoFile
  /\ rotation = NoProxies
  /\ mainpc = "call"
  /\ iter = 0
  /\ jobs = << >>
  /\ seenJobs = {}
  /\ jobsMutex = NoHolder
  /\ tokens = 0
  /\ wg = 0
  /\ pc = << >>
  /\ \E title \in ClassifierTitles, description \in ClassifierDescriptions,
        location \in ClassifierLocations :
       local = [title |-> title, description |-> description, location |-> location]
  /\ ret = NoRet
  /\ errorLogged = FALSE
  /\ fetched = 0
  /\ submitted = {}
  /\ firstJob = << >>
  /\ collectorWg = 0
  /\ handlers = << >>
  /\ redis = {}

\* the calls isFresherJob(title, description) and
\* isRemoteJob(title, location, description) of both scrapers
Classify ==
  /\ prog = "classifier"
  /\ mainpc = "call"
  /\ ret' = [isFresherJob |-> isFresherJob(local.title, local.description),
             isRemoteJob |-> isRemoteJob(local.title, local.location, local.description),
             fjsIsFresherJob |-> fjsIsFresherJob(local.title, local.description),
             fjsIsRemoteJob |->
               fjsIsRemoteJob(local.title, local.location, local.description)]
  /\ mainpc' = "returned"
  /\ UNCHANGED << prog, rotation, csv, extVars, iter, jobVars, jobsMutex, tokens, wg, pc, local,
                  errorLogged, fetched, histVars >>

NextClassifier == Classify

SpecClassifier == InitClassifier /\ [][NextClassifier]_vars

(***************************************************************************)
(* generateJobID as a function: the initial predicate draws two            *)
(* (company, title) pairs and one step computes both IDs.                  *)
(***************************************************************************)
IdentityCompanies ==
  { "Acme Inc", "ACME INC", "Acme, Inc.", "Acme  Inc", "Acme", "TechCorp" }

IdentityTitles == { "Junior Dev", "junior dev", "Junior  Dev", "Inc Junior Dev" }

IdentityPairs == [company : IdentityCompanies, title : IdentityTitles]

InitIdentity ==
  /\ prog = "identity"
  /\ csv = NoFile
  /\ rotation = NoProxies
  /\ mainpc = "call"
  /\ iter = 0
  /\ jobs = << >>
  /\ seenJobs = {}
  /\ jobsMutex = NoHolder
  /\ tokens = 0
  /\ wg = 0
  /\ pc = << >>
  /\ \E a \in IdentityPairs, b \in IdentityPairs : local = [a |-> a, b |-> b]
  /\ ret = NoRet
  /\ errorLogged = FALSE
  /\ fetched = 0
  /\ submitted = {}
  /\ firstJob = << >>
  /\ collectorWg = 0
  /\ handlers = << >>
  /\ redis = {}

\* the calls js.generateJobID(title, company) on both pairs
GenerateIDs ==
  /\ prog = "identity"
  /\ mainpc = "call"
  /\ ret' = [a |-> generateJobID(local.a.title, local.a.company),
             b |-> generateJobID(local.b.title, local.b.company)]
  /\ mainpc' = "returned"
  /\ UNCHANGED << prog, rotation, csv, extVars, iter, jobVars, jobsMutex, tokens, wg, pc, local,
                  errorLogged, fetched, histVars >>

NextIdentity == GenerateIDs

SpecIdentity == InitIdentity /\ [][NextIdentity]_vars


\* ---------------------------------------------------------------------------
\* ScrapeAllSources of the advanced scraper and ScrapeAll of the fresher
\* scraper, side by side
\* ---------------------------------------------------------------------------

InitScrapeAll == InitAdvanced \/ InitFresher

NextScrapeAll == NextAdvanced \/ NextFresher

SpecScrapeAll == InitScrapeAll /\ [][NextScrapeAll]_vars

(***************************************************************************)
(* The notification scraper (first program of 4jobswithnotification.go):   *)
(* main starts one goroutine per platform; Scrape registers the callbacks  *)
(* on the asynchronous collector and returns what Visit returns; the       *)
(* goroutine then copies scraper.jobs into allJobs.                        *)
(***************************************************************************)
\* main: the platforms to scrape
NotifyPlatforms ==
  << [Name |-> "Indeed", BaseURL |-> "https://www.indeed.com", QueryPath |-> "/jobs",
      JobContainer |-> ".job_seen_beacon"] >>

\* goroutines: <<i, 0>> is the goroutine main starts for platform i, <<i, 1>>
\* the request the asynchronous collector starts for its Visit
NotifyThreads == (1..Len(NotifyPlatforms)) \X {0, 1}

\* the zero value of Job
NotifyZeroJob ==
  [Platform |-> "", Title |-> "", Company |-> "", Location |-> "", Description |-> "",
   Salary |-> "", PostedDate |-> "", URL |-> ""]

\* the elements a fetched page can hold
NotifyElements ==
  { [container |-> ".job_seen_beacon", title |-> " Software Engineer ", company |-> "Acme",
     location |-> "Remote"],
    [container |-> ".job_seen_beacon", title |-> "Data Engineer", company |-> "Initech",
     location |-> "Remote"],
    [container |-> ".base-card", title |-> "Software Engineer", company |-> "Acme",
     location |-> "Remote"] }

\* Scrape: the Job the OnHTML callback of platform i builds from an element
\* (the -title and -location flags have their defaults)
NotifyOnHTMLJob(i, e) ==
  [Platform |-> NotifyPlatforms[i].Name, Title |-> TrimSpace(e.title),
   Company |-> TrimSpace(e.company), Location |-> TrimSpace(e.location),
   Description |-> "", Salary |-> "", PostedDate |-> "",
   URL |-> NotifyPlatforms[i].BaseURL \o NotifyPlatforms[i].QueryPath \o "?q="
             \o QueryEscape("software engineer") \o "&l=" \o QueryEscape("remote")]

\* main after NewJobScraper(): ret holds main's allJobs and the records
\* SaveToCSV has written
InitNotify ==
  /\ prog = "notify"
  /\ csv = NoFile
  /\ rotation = NoProxies
  /\ mainpc = "launch"
  /\ iter = 1
  /\ jobs = << >>
  /\ seenJobs = {}
  /\ jobsMutex = NoHolder
  /\ tokens = 0
  /\ wg = 0
  /\ pc = [t \in NotifyThreads |-> "unstarted"]
  /\ local = [t \in NotifyThreads |-> [job |-> NoJob]]
  /\ ret = [allJobs |-> << >>, csv |-> << >>]
  /\ errorLogged = FALSE
  /\ fetched = 0
  /\ submitted = {}
  /\ firstJob = << >>
  /\ collectorWg = 0
  /\ handlers = << >>
  /\ redis = {}

\* main: wg.Add(1); go func(p Platform) {...}(platform)
NotifyLaunch ==
  /\ prog = "notify"
  /\ mainpc = "launch"
  /\ pc' = [pc EXCEPT ![<<iter, 0>>] = "scrape"]
  /\ wg' = wg + 1
  /\ iter' = iter + 1
  /\ mainpc' = IF iter = Len(NotifyPlatforms) THEN "wgwait" ELSE "launch"
  /\ UNCHANGED << prog, rotation, csv, extVars, ret, jobVars, jobsMutex, tokens, local, errorLogged,
                  fetched, histVars >>

\* Scrape: OnError and OnHTML are registered and js.collector.Visit(baseURL)
\* starts the request and returns nil: Scrape returns nil
NotifyScrape(i) ==
  /\ prog = "notify"
  /\ pc[<<i, 0>>] = "scrape"
  /\ handlers' = Append(handlers, i)
  /\ collectorWg' = collectorWg + 1
  /\ pc' = [pc EXCEPT ![<<i, 0>>] = "copy", ![<<i, 1>>] = "fetch"]
  /\ UNCHANGED << prog, rotation, csv, redis, mainVars, jobVars, jobsMutex, tokens, wg, local,
                  errorLogged, fetched, histVars >>

\* Scrape: js.collector.Visit(baseURL) returns an error; the goroutine logs
\* it and returns (deferred wg.Done())
NotifyScrapeError(i) ==
  /\ prog = "notify"
  /\ pc[<<i, 0>>] = "scrape"
  /\ handlers' = Append(handlers, i)
  /\ errorLogged' = TRUE
  /\ pc' = [pc EXCEPT ![<<i, 0>>] = "done"]
  /\ wg' = wg - 1
  /\ UNCHANGED << prog, rotation, csv, collectorWg, redis, mainVars, jobVars, jobsMutex, tokens, local,
                  fetched, histVars >>

\* what append(allJobs, scraper.jobs...) reads of scraper.jobs: the goroutine
\* does not hold scraper.jobsMutex, so a read during the append of a callback
\* sees the slice before it, the slice after it, or the new length with the
\* element not yet written
ReadJobs ==
  IF jobsMutex = NoHolder THEN { jobs }
  ELSE { jobs, Append(jobs, local[jobsMutex].job), Append(jobs, NotifyZeroJob) }

\* main's goroutine: jobsMutex.Lock(); allJobs = append(allJobs,
\* scraper.jobs...); jobsMutex.Unlock(); then the deferred wg.Done()
NotifyCopy(i) ==
  /\ prog = "notify"
  /\ pc[<<i, 0>>] = "copy"
  /\ \E read \in ReadJobs : ret' = [ret EXCEPT !.allJobs = @ \o read]
  /\ pc' = [pc EXCEPT ![<<i, 0>>] = "done"]
  /\ wg' = wg - 1
  /\ UNCHANGED << prog, rotation, csv, extVars, mainpc, iter, jobVars, jobsMutex, tokens, local,
                  errorLogged, fetched, histVars >>

\* the request fails: the OnError callbacks log it
NotifyFetchFail(r) ==
  /\ prog = "notify"
  /\ pc[r] = "fetch"
  /\ errorLogged' = TRUE
  /\ pc' = [pc EXCEPT ![r] = "done"]
  /\ collectorWg' = collectorWg - 1
  /\ UNCHANGED << prog, rotation, csv, redisVars, mainVars, jobVars, jobsMutex, tokens, wg, local,
                  fetched, histVars >>

\* the response arrives and the collector starts on its elements
NotifyFetchPage(r) ==
  /\ prog = "notify"
  /\ pc[r] = "fetch"
  /\ pc' = [pc EXCEPT ![r] = "html"]
  /\ UNCHANGED << prog, rotation, csv, extVars, mainVars, jobVars, jobsMutex, tokens, wg, local,
                  errorLogged, fetched, histVars >>

\* a registered OnHTML callback runs on an element its selector matches: it
\* builds the job and takes js.jobsMutex
NotifyOnHTML(r) ==
  /\ prog = "notify"
  /\ pc[r] = "html"
  /\ fetched < MaxElems
  /\ jobsMutex = NoHolder
  /\ fetched' = fetched + 1
  /\ \E k \in 1..Len(handlers), e \in NotifyElements :
       /\ e.container = NotifyPlatforms[handlers[k]].JobContainer
       /\ local' = [local EXCEPT ![r].job = NotifyOnHTMLJob(handlers[k], e)]
  /\ submitted' = submitted \cup { local'[r].job }
  /\ jobsMutex' = r
  /\ pc' = [pc EXCEPT ![r] = "locked"]
  /\ UNCHANGED << prog, rotation, csv, extVars, mainVars, jobVars, tokens, wg, errorLogged, firstJob >>

\* the callback: js.jobs = append(js.jobs, job); js.jobsMutex.Unlock()
NotifyAppend(r) ==
  /\ prog = "notify"
  /\ pc[r] = "locked"
  /\ jobs' = Append(jobs, local[r].job)
  /\ jobsMutex' = NoHolder
  /\ local' = [local EXCEPT ![r].job = NoJob]
  /\ pc' = [pc EXCEPT ![r] = "html"]
  /\ UNCHANGED << prog, rotation, csv, extVars, mainVars, seenJobs, tokens, wg, errorLogged, fetched,
                  histVars >>

\* the page has no more elements: the request is done
NotifyFetchDone(r) ==
  /\ prog = "notify"
  /\ pc[r] = "html"
  /\ pc' = [pc EXCEPT ![r] = "done"]
  /\ collectorWg' = collectorWg - 1
  /\ UNCHANGED << prog, rotation, csv, redisVars, mainVars, jobVars, jobsMutex, tokens, wg, local,
                  errorLogged, fetched, histVars >>

\* main: wg.Wait() returns when the counter is zero; SaveToCSV(*outputFile,
\* allJobs) writes the records of allJobs
NotifyWgWait ==
  /\ prog = "notify"
  /\ mainpc = "wgwait"
  /\ wg = 0
  /\ mainpc' = "returned"
  /\ ret' = [ret EXCEPT !.csv = ret.allJobs]
  /\ UNCHANGED << prog, rotation, csv, extVars, iter, jobVars, jobsMutex, tokens, wg, pc, local,
                  errorLogged, fetched, histVars >>

NextNotify ==
  \/ NotifyLaunch
  \/ NotifyWgWait
  \/ \E i \in 1..Len(NotifyPlatforms) :
       \/ NotifyScrape(i)
       \/ NotifyScrapeError(i)
       \/ NotifyCopy(i)
  \/ \E r \in (1..Len(NotifyPlatforms)) \X {1} :
       \/ NotifyFetchFail(r)
       \/ NotifyFetchPage(r)
       \/ NotifyOnHTML(r)
       \/ NotifyAppend(r)
       \/ NotifyFetchDone(r)

SpecNotify == InitNotify /\ [][NextNotify]_vars

(***************************************************************************)
(* The multi-platform scraper (third program of part_002): one goroutine   *)
(* per platform runs Scrape on the one asynchronous collector of the       *)
(* JobScraper; every Scrape registers its callbacks on that collector.     *)
(***************************************************************************)
BurstMulti == 10

\* main: the platforms to scrape (each Filters map has at most one entry)
MultiPlatforms ==
  << [Name |-> "Indeed", BaseURL |-> "https://www.indeed.com", QueryPath |-> "/jobs",
      Filters |-> << >>],
     [Name |-> "LinkedIn", BaseURL |-> "https://www.linkedin.com",
      QueryPath |-> "/jobs/search", Filters |-> << <<"f_TPR", "r2592000">> >>] >>

\* Scrape: baseURL, with the defaults of the -jobTitle and -location flags
MultiURL(i) ==
  LET p == MultiPlatforms[i] IN
  p.BaseURL \o p.QueryPath \o "?q=" \o QueryEscape("Software Engineer") \o "&l="
    \o QueryEscape("Remote")
    \o (IF p.Filters = << >> THEN ""
        ELSE "&" \o p.Filters[1][1] \o "=" \o QueryEscape(p.Filters[1][2]))

\* the .job_seen_beacon elements a fetched page can hold
MultiElements ==
  { [title |-> "Software Engineer", company |-> "Acme"],
    [title |-> "", company |-> "Initech"] }

\* main after NewJobScraper(platforms): goroutine <<i, 0>> runs Scrape for
\* platform i, <<i, 1>> is the request the collector starts for its Visit
InitMulti ==
  /\ prog = "multi"
  /\ csv = NoFile
  /\ rotation = NoProxies
  /\ mainpc = "launch"
  /\ iter = 1
  /\ jobs = << >>
  /\ seenJobs = {}
  /\ jobsMutex = NoHolder
  /\ tokens = BurstMulti
  /\ wg = 0
  /\ pc = [t \in (1..Len(MultiPlatforms)) \X {0, 1} |-> "unstarted"]
  /\ local = [t \in (1..Len(MultiPlatforms)) \X {0, 1} |->
                [callbacks |-> << >>, page |-> << >>, k |-> 1, e |-> 1]]
  /\ ret = NoRet
  /\ errorLogged = FALSE
  /\ fetched = 0
  /\ submitted = {}
  /\ firstJob = << >>
  /\ collectorWg = 0
  /\ handlers = << >>
  /\ redis = {}

\* main: wg.Add(1); go func(p Platform) {...}(platform)
MultiLaunch ==
  /\ prog = "multi"
  /\ mainpc = "launch"
  /\ pc' = [pc EXCEPT ![<<iter, 0>>] = "scrape"]
  /\ wg' = wg + 1
  /\ iter' = iter + 1
  /\ mainpc' = IF iter = Len(MultiPlatforms) THEN "wgwait" ELSE "launch"
  /\ UNCHANGED << prog, rotation, csv, extVars, ret, jobVars, jobsMutex, tokens, local, errorLogged,
                  fetched, histVars >>

\* Scrape up to js.collector.Wait(): OnRequest, OnError and
\* OnHTML(".job_seen_beacon", ...) are registered on the shared collector;
\* Visit starts the request, or returns an error that is logged
MultiScrape(i) ==
  /\ prog = "multi"
  /\ pc[<<i, 0>>] = "scrape"
  /\ handlers' = Append(handlers, i)
  /\ \/ /\ collectorWg' = collectorWg + 1
        /\ pc' = [pc EXCEPT ![<<i, 0>>] = "cwait", ![<<i, 1>>] = "request"]
        /\ UNCHANGED errorLogged
     \/ /\ errorLogged' = TRUE
        /\ pc' = [pc EXCEPT ![<<i, 0>>] = "cwait"]
        /\ UNCHANGED collectorWg
  /\ UNCHANGED << prog, rotation, csv, redis, mainVars, jobVars, jobsMutex, tokens, wg, local, fetched,
                  histVars >>

\* the request: every registered OnRequest callback calls
\* js.rateLimiter.Wait; then the response is a failure (the OnError callbacks
\* log it) or a page, on which the collector runs the OnHTML callbacks
\* registered by then
MultiFetch(r) ==
  /\ prog = "multi"
  /\ pc[r] = "request"
  /\ tokens >= Len(handlers)
  /\ tokens' = tokens - Len(handlers)
  /\ \/ /\ errorLogged' = TRUE
        /\ pc' = [pc EXCEPT ![r] = "done"]
        /\ collectorWg' = collectorWg - 1
        /\ UNCHANGED << local, fetched >>
     \/ \E n \in 0..(MaxElems - fetched) : \E page \in [1..n -> MultiElements] :
          /\ local' = [local EXCEPT ![r] = [callbacks |-> handlers, page |-> page,
                                            k |-> 1, e |-> 1]]
          /\ fetched' = fetched + n
          /\ pc' = [pc EXCEPT ![r] = "html"]
          /\ UNCHANGED << collectorWg, errorLogged >>
  /\ UNCHANGED << prog, rotation, csv, redisVars, mainVars, jobVars, jobsMutex, wg, histVars >>

\* callback k of the collector runs on element e of the page: it builds the
\* job and appends it under js.jobsMutex
MultiOnHTML(r) ==
  /\ prog = "multi"
  /\ pc[r] = "html"
  /\ local[r].k <= Len(local[r].callbacks)
  /\ local[r].e <= Len(local[r].page)
  /\ jobsMutex = NoHolder
  /\ LET elem == local[r].page[local[r].e]
         job == [Platform |-> MultiPlatforms[local[r].callbacks[local[r].k]].Name,
                 Title |-> elem.title, Company |-> elem.company, Location |-> "",
                 Description |-> "", Salary |-> "", PostedDate |-> "",
                 URL |-> MultiURL(r[1])]
     IN jobs' = Append(jobs, job)
  /\ local' = [local EXCEPT ![r] =
                 IF @.e = Len(@.page) THEN [@ EXCEPT !.k = @ + 1, !.e = 1]
                 ELSE [@ EXCEPT !.e = @ + 1]]
  /\ UNCHANGED << prog, rotation, csv, extVars, mainVars, seenJobs, jobsMutex, tokens, wg, pc,
                  errorLogged, fetched, histVars >>

\* no callback is left to run: the request is done
MultiFetchDone(r) ==
  /\ prog = "multi"
  /\ pc[r] = "html"
  /\ local[r].k > Len(local[r].callbacks) \/ local[r].page = << >>
  /\ pc' = [pc EXCEPT ![r] = "done"]
  /\ collectorWg' = collectorWg - 1
  /\ UNCHANGED << prog, rotation, csv, redisVars, mainVars, jobVars, jobsMutex, tokens, wg, local,
                  errorLogged, fetched, histVars >>

\* Scrape: js.collector.Wait() returns when the shared collector has no
\* request in flight; the goroutine ends (deferred wg.Done())
MultiCollectorWait(i) ==
  /\ prog = "multi"
  /\ pc[<<i, 0>>] = "cwait"
  /\ collectorWg = 0
  /\ pc' = [pc EXCEPT ![<<i, 0>>] = "done"]
  /\ wg' = wg - 1
  /\ UNCHANGED << prog, rotation, csv, extVars, mainVars, jobVars, jobsMutex, tokens, local,
                  errorLogged, fetched, histVars >>

\* main: wg.Wait() returns when the counter is zero
MultiWgWait ==
  /\ prog = "multi"
  /\ mainpc = "wgwait"
  /\ wg = 0
  /\ mainpc' = "returned"
  /\ UNCHANGED << prog, rotation, csv, extVars, iter, ret, jobVars, jobsMutex, tokens, wg, pc, local,
                  errorLogged, fetched, histVars >>

NextMulti ==
  \/ MultiLaunch
  \/ MultiWgWait
  \/ \E i \in 1..Len(MultiPlatforms) :
       \/ MultiScrape(i)
       \/ MultiCollectorWait(i)
  \/ \E r \in (1..Len(MultiPlatforms)) \X {1} :
       \/ MultiFetch(r)
       \/ MultiOnHTML(r)
       \/ MultiFetchDone(r)

SpecMulti == InitMulti /\ [][NextMulti]_vars

(***************************************************************************)
(* The retrying multi-platform scraper (second program of part_000): its   *)
(* main has the platforms, search URLs and flags of MultiPlatforms and     *)
(* MultiURL; Scrape waits on the shared limiter, creates a collector of    *)
(* its own and calls Visit up to maxRetries times.                         *)
(***************************************************************************)
BurstRetry == 1
maxRetries == 3

\* main after NewJobScraper(platforms): goroutine <<i, 0>> runs Scrape for
\* platform i, <<i, 1>> is the request its collector starts
InitRetry ==
  /\ prog = "retry"
  /\ csv = NoFile
  /\ rotation = NoProxies
  /\ mainpc = "launch"
  /\ iter = 1
  /\ jobs = << >>
  /\ seenJobs = {}
  /\ jobsMutex = NoHolder
  /\ tokens = BurstRetry
  /\ wg = 0
  /\ pc = [t \in (1..Len(MultiPlatforms)) \X {0, 1} |-> "unstarted"]
  /\ local = [t \in (1..Len(MultiPlatforms)) \X {0, 1} |->
                [waits |-> 0, attempt |-> 0, visits |-> 0, sleeps |-> << >>,
                 page |-> << >>]]
  /\ ret = NoRet
  /\ errorLogged = FALSE
  /\ fetched = 0
  /\ submitted = {}
  /\ firstJob = << >>
  /\ collectorWg = 0
  /\ handlers = << >>
  /\ redis = {}

\* main: wg.Add(1); go func(p Platform) {...}(platform)
RetryLaunch ==
  /\ prog = "retry"
  /\ mainpc = "launch"
  /\ pc' = [pc EXCEPT ![<<iter, 0>>] = "limiter"]
  /\ wg' = wg + 1
  /\ iter' = iter + 1
  /\ mainpc' = IF iter = Len(MultiPlatforms) THEN "wgwait" ELSE "launch"
  /\ UNCHANGED << prog, rotation, csv, extVars, ret, jobVars, jobsMutex, tokens, local, errorLogged,
                  fetched, histVars >>

\* rate.NewLimiter(rate.Every(1*time.Second), 1): a second passes and the
\* bucket is full again
RetryRefill ==
  /\ prog = "retry"
  /\ tokens < BurstRetry
  /\ \E i \in 1..Len(MultiPlatforms) : pc[<<i, 0>>] = "limiter"
  /\ tokens' = tokens + 1
  /\ UNCHANGED << prog, rotation, csv, extVars, mainVars, jobVars, jobsMutex, wg, pc, local,
                  errorLogged, fetched, histVars >>

\* the same wait, but one that returns without a token
RetryRateLimiterWait_NoToken(i) ==
  /\ prog = "retry"
  /\ pc[<<i, 0>>] = "limiter"
  /\ local' = [local EXCEPT ![<<i, 0>>].waits = @ + 1]
  /\ pc' = [pc EXCEPT ![<<i, 0>>] = "visit"]
  /\ UNCHANGED << prog, rotation, csv, extVars, mainVars, jobVars, jobsMutex, tokens, wg,
                  errorLogged, fetched, histVars >>

\* Scrape: js.rateLimiter.Wait(context.Background()) returns with a token;
\* then the collector is created and its callbacks are registered
RetryRateLimiterWait(i) ==
  /\ prog = "retry"
  /\ pc[<<i, 0>>] = "limiter"
  /\ tokens > 0
  /\ tokens' = tokens - 1
  /\ local' = [local EXCEPT ![<<i, 0>>].waits = @ + 1]
  /\ pc' = [pc EXCEPT ![<<i, 0>>] = "visit"]
  /\ UNCHANGED << prog, rotation, csv, extVars, mainVars, jobVars, jobsMutex, wg, errorLogged,
                  fetched, histVars >>

\* Scrape: one iteration of the loop over attempt: collector.Visit(baseURL)
\* starts the request and returns nil (break), or returns an error, which is
\* logged and followed by time.Sleep((attempt+1) * 3 seconds)
RetryVisit(i) ==
  /\ prog = "retry"
  /\ pc[<<i, 0>>] = "visit"
  /\ local[<<i, 0>>].attempt < maxRetries
  /\ \/ /\ local' = [local EXCEPT ![<<i, 0>>].visits = @ + 1]
        /\ pc' = [pc EXCEPT ![<<i, 0>>] = "cwait", ![<<i, 1>>] = "fetch"]
        /\ UNCHANGED errorLogged
     \/ /\ local' = [local EXCEPT ![<<i, 0>>] =
                       [@ EXCEPT !.visits = @ + 1, !.attempt = @ + 1,
                                 !.sleeps = Append(@, (local[<<i, 0>>].attempt + 1) * 3)]]
        /\ errorLogged' = TRUE
        /\ pc' = [pc EXCEPT ![<<i, 0>>] =
                    IF local[<<i, 0>>].attempt + 1 < maxRetries THEN "visit" ELSE "cwait"]
  /\ UNCHANGED << prog, rotation, csv, extVars, mainVars, jobVars, jobsMutex, tokens, wg, fetched,
                  histVars >>

\* the request of the collector: it fails (OnError logs it), or the page
\* arrives and the OnHTML callback appends, under js.jobsMutex, the job of
\* every listing element that has a title and a company
RetryFetch(r) ==
  /\ prog = "retry"
  /\ pc[r] = "fetch"
  /\ pc' = [pc EXCEPT ![r] = "done"]
  /\ \/ /\ errorLogged' = TRUE
        /\ UNCHANGED << jobs, local, fetched >>
     \/ \E n \in 0..(MaxElems - fetched) :
        \E page \in [1..n -> { [title |-> " Software Engineer", company |-> "Acme "],
                               [title |-> "", company |-> "Initech"] }] :
          LET job(e) == [Platform |-> MultiPlatforms[r[1]].Name,
                         Title |-> TrimSpace(e.title), Company |-> TrimSpace(e.company),
                         Location |-> "", Description |-> "", Salary |-> "",
                         PostedDate |-> "", URL |-> MultiURL(r[1])]
          IN /\ jobs' = jobs \o SelectSeq([k \in 1..n |-> job(page[k])],
                                          LAMBDA j : j.Title # "" /\ j.Company # "")
             /\ local' = [local EXCEPT ![r].page = page]
             /\ fetched' = fetched + n
             /\ UNCHANGED errorLogged
  /\ UNCHANGED << prog, rotation, csv, extVars, mainVars, seenJobs, jobsMutex, tokens, wg, histVars >>

\* Scrape: collector.Wait() returns when the collector of this call has no
\* request in flight; the goroutine ends (deferred wg.Done())
RetryCollectorWait(i) ==
  /\ prog = "retry"
  /\ pc[<<i, 0>>] = "cwait"
  /\ pc[<<i, 1>>] \in {"unstarted", "done"}
  /\ pc' = [pc EXCEPT ![<<i, 0>>] = "done"]
  /\ wg' = wg - 1
  /\ UNCHANGED << prog, rotation, csv, extVars, mainVars, jobVars, jobsMutex, tokens, local,
                  errorLogged, fetched, histVars >>

\* main: wg.Wait() returns when the counter is zero
RetryWgWait ==
  /\ prog = "retry"
  /\ mainpc = "wgwait"
  /\ wg = 0
  /\ mainpc' = "returned"
  /\ UNCHANGED << prog, rotation, csv, extVars, iter, ret, jobVars, jobsMutex, tokens, wg, pc, local,
                  errorLogged, fetched, histVars >>

NextRetry ==
  \/ RetryLaunch
  \/ RetryRefill
  \/ RetryWgWait
  \/ \E i \in 1..Len(MultiPlatforms) :
       \/ RetryRateLimiterWait(i)
       \/ RetryVisit(i)
       \/ RetryCollectorWait(i)
  \/ \E r \in (1..Len(MultiPlatforms)) \X {1} : RetryFetch(r)

SpecRetry == InitRetry /\ [][NextRetry]_vars

(***************************************************************************)
(* The LinkedIn scraper (2linkedin.go): main calls ScrapeJobs, which       *)
(* requests the search page up to maxAttempts times, and saves the jobs.   *)
(***************************************************************************)
maxAttempts == 5

\* main: scraper := &JobScraper{}; scraper.ScrapeJobs(searchURL) is entered
\* with attempt := 1
InitLinkedIn ==
  /\ prog = "linkedin"
  /\ csv = NoFile
  /\ rotation = NoProxies
  /\ mainpc = "attempt"
  /\ iter = 1
  /\ jobs = << >>
  /\ seenJobs = {}
  /\ jobsMutex = NoHolder
  /\ tokens = 0
  /\ wg = 0
  /\ pc = << >>
  /\ local = [status |-> 0, page |-> << >>]
  /\ ret = NoRet
  /\ errorLogged = FALSE
  /\ fetched = 0
  /\ submitted = {}
  /\ firstJob = << >>
  /\ collectorWg = 0
  /\ handlers = << >>
  /\ redis = {}

\* ScrapeJobs: one iteration of the loop over attempt: client.Do fails; or
\* the status is 429 (sleep, continue); or it is neither 429 nor 200; or the
\* page does not parse; or every complete .base-card of the page is appended
\* (sleep, break)
ScrapeJobsAttempt ==
  /\ prog = "linkedin"
  /\ mainpc = "attempt"
  /\ iter <= maxAttempts
  /\ \/ /\ ret' = "failed to fetch URL"
        /\ mainpc' = "returned"
        /\ UNCHANGED << iter, jobs, local, fetched >>
     \/ /\ local' = [local EXCEPT !.status = 429]
        /\ iter' = iter + 1
        /\ UNCHANGED << mainpc, ret, jobs, fetched >>
     \/ \E status \in {403, 500} :
          /\ local' = [local EXCEPT !.status = status]
          /\ ret' = "received non-200 response code"
          /\ mainpc' = "returned"
          /\ UNCHANGED << iter, jobs, fetched >>
     \/ /\ local' = [local EXCEPT !.status = 200]
        /\ ret' = "failed to parse HTML"
        /\ mainpc' = "returned"
        /\ UNCHANGED << iter, jobs, fetched >>
     \/ \E n \in 0..MaxElems :
        \E page \in [1..n -> { [title |-> " Go Developer ", company |-> "Acme",
                                location |-> "Remote", href |-> "/jobs/view/1"],
                               [title |-> "Go Developer", company |-> "Acme",
                                location |-> "Remote", href |-> ""],
                               [title |-> "Data Engineer", company |-> "Initech",
                                location |-> "", href |-> "/jobs/view/2"],
                               [title |-> " ", company |-> "Initech",
                                location |-> "Remote", href |-> "/jobs/view/3"] }] :
          LET job(e) == [Title |-> TrimSpace(e.title), Company |-> TrimSpace(e.company),
                         Location |-> TrimSpace(e.location),
                         URL |-> IF e.href = "" THEN "searchURL" ELSE e.href]
          IN /\ jobs' = jobs \o SelectSeq([k \in 1..n |-> job(page[k])],
                                 LAMBDA j : ~(j.Title = "" \/ j.Company = "" \/ j.Location = ""))
             /\ local' = [status |-> 200, page |-> page]
             /\ fetched' = fetched + n
             /\ mainpc' = "afterloop"
             /\ UNCHANGED << iter, ret >>
  /\ UNCHANGED << prog, rotation, csv, extVars, seenJobs, jobsMutex, tokens, wg, pc, errorLogged,
                  histVars >>

\* ScrapeJobs: the loop is left, by break or with attempt > 5: return nil
ScrapeJobsReturn ==
  /\ prog = "linkedin"
  /\ mainpc = "afterloop" \/ (mainpc = "attempt" /\ iter > maxAttempts)
  /\ ret' = "nil"
  /\ mainpc' = "returned"
  /\ UNCHANGED << prog, rotation, csv, extVars, iter, jobVars, jobsMutex, tokens, wg, pc, local,
                  errorLogged, fetched, histVars >>

\* main after ScrapeJobs: log.Fatalf on an error; else SaveJobsToCSV, which
\* writes jobs.csv or fails (log.Fatalf)
LinkedInSave ==
  /\ prog = "linkedin"
  /\ mainpc = "returned"
  /\ IF ret # "nil"
       THEN mainpc' = "fatal" /\ errorLogged' = TRUE
       ELSE \/ mainpc' = "saved" /\ UNCHANGED errorLogged
            \/ mainpc' = "fatal" /\ errorLogged' = TRUE
  /\ UNCHANGED << prog, rotation, csv, extVars, iter, ret, jobVars, jobsMutex, tokens, wg, pc, local,
                  fetched, histVars >>

NextLinkedIn == ScrapeJobsAttempt \/ ScrapeJobsReturn \/ LinkedInSave

SpecLinkedIn == InitLinkedIn /\ [][NextLinkedIn]_vars

(***************************************************************************)
(* The Indeed scraper (second program of part_003): main calls             *)
(* ScrapeIndeed, whose collector is synchronous, and then SaveToCSV.       *)
(***************************************************************************)
\* main: scraper := NewJobScraper(); local holds the result of SaveToCSV,
\* the rows of job_listings.csv and the total that main prints
InitIndeed ==
  /\ prog = "indeed"
  /\ csv = NoFile
  /\ rotation = NoProxies
  /\ mainpc = "scrape"
  /\ iter = 1
  /\ jobs = << >>
  /\ seenJobs = {}
  /\ jobsMutex = NoHolder
  /\ tokens = 0
  /\ wg = 0
  /\ pc = << >>
  /\ local = [pages |-> 0, saveErr |-> "none", csv |-> << >>, completed |-> -1]
  /\ ret = NoRet
  /\ errorLogged = FALSE
  /\ fetched = 0
  /\ submitted = {}
  /\ firstJob = << >>
  /\ collectorWg = 0
  /\ handlers = << >>
  /\ redis = {}

\* ScrapeIndeed("Software Engineer", "San Francisco"): c.Visit(searchURL)
\* fails and the error is returned; or the search page is fetched, and after
\* it the page of its a.jobsearch-FooterLinks link if it has one (MaxDepth 2),
\* and the callback appends the job of every div.job_seen_beacon; c.Wait();
\* return nil
ScrapeIndeed ==
  /\ prog = "indeed"
  /\ mainpc = "scrape"
  /\ mainpc' = "scraped"
  /\ \/ /\ ret' = "failed to visit Indeed search page"
        /\ errorLogged' = TRUE
        /\ UNCHANGED << jobs, local, fetched >>
     \/ \E n \in 0..MaxElems, pages \in 1..2 :
        \E elems \in [1..n -> { [spanTitle |-> "Software Engineer", h2Title |-> "new",
                                 company |-> "Acme", href |-> "/rc/clk?jk=1"],
                                [spanTitle |-> "", h2Title |-> "Go Developer",
                                 company |-> "Initech", href |-> "/rc/clk?jk=2"],
                                [spanTitle |-> "", h2Title |-> "",
                                 company |-> "Acme", href |-> ""],
                                [spanTitle |-> "Data Engineer", h2Title |-> "",
                                 company |-> "", href |-> "/rc/clk?jk=3"] }] :
          /\ jobs' = [k \in 1..n |->
                        [Title |-> IF elems[k].spanTitle = "" THEN elems[k].h2Title
                                   ELSE elems[k].spanTitle,
                         Company |-> elems[k].company, Location |-> "",
                         Description |-> "",
                         URL |-> "https://www.indeed.com" \o elems[k].href]]
          /\ local' = [local EXCEPT !.pages = pages]
          /\ fetched' = n
          /\ ret' = "nil"
          /\ UNCHANGED errorLogged
  /\ UNCHANGED << prog, rotation, csv, extVars, iter, seenJobs, jobsMutex, tokens, wg, pc, histVars >>

\* main after ScrapeIndeed: an error is logged and main returns; else
\* SaveToCSV("job_listings.csv"): "no jobs to save" with js.jobs empty, or
\* os.Create fails, or the header and one row per job are written; main logs
\* the error and returns, or prints the total
IndeedSaveToCSV ==
  /\ prog = "indeed"
  /\ mainpc = "scraped"
  /\ mainpc' = "exited"
  /\ IF ret # "nil" THEN UNCHANGED << local, errorLogged >>
     ELSE IF Len(jobs) = 0
       THEN /\ local' = [local EXCEPT !.saveErr = "no jobs to save"]
            /\ errorLogged' = TRUE
       ELSE \/ /\ local' = [local EXCEPT !.saveErr = "os.Create"]
               /\ errorLogged' = TRUE
            \/ /\ local' = [local EXCEPT
                    !.saveErr = "nil",
                    !.csv = << <<"Title", "Company", "Location", "Description", "URL">> >>
                              \o [k \in 1..Len(jobs) |->
                                    << jobs[k].Title, jobs[k].Company, jobs[k].Location,
                                       jobs[k].Description, jobs[k].URL >>],
                    !.completed = Len(jobs)]
               /\ UNCHANGED errorLogged
  /\ UNCHANGED << prog, rotation, csv, extVars, iter, ret, jobVars, jobsMutex, tokens, wg, pc, fetched,
                  histVars >>

NextIndeed == ScrapeIndeed \/ IndeedSaveToCSV

SpecIndeed == InitIndeed /\ [][NextIndeed]_vars

(***************************************************************************)
(* The Indeed scraper of main.go: ScrapeIndeed starts one goroutine per    *)
(* start URL on the asynchronous collector; the a.page callback follows    *)
(* the pagination link of a page while js.jobs has fewer than JobCap jobs. *)
(***************************************************************************)
\* start URLs that are explored (main passes maxPages = 5)
NumPages == 2
\* .job_seen_beacon elements of a page that has listings
PageSize == 60
JobCap == 100
BurstPaged == 10

\* main at the call of ScrapeIndeed, after configureCollector: goroutine
\* <<i, 0>> visits start URL i, <<i, 1>> is the request for it and <<i, 2>>
\* the request for the page its pagination link leads to (MaxDepth 2)
InitPaged ==
  /\ prog = "paged"
  /\ csv = NoFile
  /\ \E proxies \in {<< >>, << "http://proxy1.example.com:8080",
                               "http://proxy2.example.com:8080" >>} :
       rotation = [proxyList |-> proxies, currentProxy |-> 0, returned |-> << >>]
  /\ mainpc = "launch"
  /\ iter = 1
  /\ jobs = << >>
  /\ seenJobs = {}
  /\ jobsMutex = NoHolder
  /\ tokens = BurstPaged
  /\ wg = 0
  /\ pc = [t \in (1..NumPages) \X {0, 1, 2} |-> "unstarted"]
  /\ local = [t \in (1..NumPages) \X {0, 1, 2} |-> [len |-> 0, currentProxy |-> 0]]
  /\ ret = NoRet
  /\ errorLogged = FALSE
  /\ fetched = 0
  /\ submitted = {}
  /\ firstJob = << >>
  /\ collectorWg = 0
  /\ handlers = << >>
  /\ redis = {}

\* ScrapeIndeed: wg.Add(1); go func(pageURL string) {...}(url)
PagedLaunch ==
  /\ prog = "paged"
  /\ mainpc = "launch"
  /\ pc' = [pc EXCEPT ![<<iter, 0>>] = "visit"]
  /\ wg' = wg + 1
  /\ iter' = iter + 1
  /\ mainpc' = IF iter = NumPages THEN "wait" ELSE "launch"
  /\ UNCHANGED << prog, rotation, csv, extVars, ret, jobVars, jobsMutex, tokens, local, errorLogged,
                  fetched, histVars >>

\* the goroutine: after its sleep js.collector.Visit(pageURL) starts the
\* request, or returns an error that is logged; deferred wg.Done()
PagedVisit(i) ==
  /\ prog = "paged"
  /\ pc[<<i, 0>>] = "visit"
  /\ wg' = wg - 1
  /\ \/ /\ pc' = [pc EXCEPT ![<<i, 0>>] = "done", ![<<i, 1>>] = "fetch"]
        /\ collectorWg' = collectorWg + 1
        /\ UNCHANGED errorLogged
     \/ /\ pc' = [pc EXCEPT ![<<i, 0>>] = "done"]
        /\ errorLogged' = TRUE
        /\ UNCHANGED collectorWg
  /\ UNCHANGED << prog, rotation, csv, redisVars, mainVars, jobVars, jobsMutex, tokens, local, fetched,
                  histVars >>

\* rate.NewLimiter(rate.Every(100*time.Millisecond), 10): a token is added
PagedRefill ==
  /\ prog = "paged"
  /\ tokens < BurstPaged
  /\ \E r \in DOMAIN pc : pc[r] = "fetch"
  /\ tokens' = tokens + 1
  /\ UNCHANGED << prog, rotation, csv, extVars, mainVars, jobVars, jobsMutex, wg, pc, local,
                  errorLogged, fetched, histVars >>

\* the OnRequest callback of a request, which runs in the goroutine of the
\* request: it takes a token of js.rateLimiter and calls getNextProxy, which
\* returns "" for an empty js.proxyList and else reads js.currentProxy for the
\* proxy it returns and for the sum it is about to store (no lock is held)
PagedOnRequest(r) ==
  /\ prog = "paged"
  /\ pc[r] = "fetch"
  /\ tokens > 0
  /\ tokens' = tokens - 1
  /\ IF Len(rotation.proxyList) = 0
       THEN /\ rotation' = [rotation EXCEPT !.returned = Append(@, "")]
            /\ pc' = [pc EXCEPT ![r] = "respond"]
            /\ UNCHANGED local
       ELSE /\ rotation' =
                 [rotation EXCEPT
                    !.returned = Append(@, rotation.proxyList[rotation.currentProxy + 1])]
            /\ local' = [local EXCEPT ![r].currentProxy = rotation.currentProxy]
            /\ pc' = [pc EXCEPT ![r] = "rotate"]
  /\ UNCHANGED << prog, csv, extVars, mainVars, jobVars, jobsMutex, wg,
                  errorLogged, fetched, histVars >>

\* getNextProxy: js.currentProxy = (js.currentProxy + 1) % len(js.proxyList),
\* the store of the sum that was computed from the value read
PagedRotate(r) ==
  /\ prog = "paged"
  /\ pc[r] = "rotate"
  /\ rotation' = [rotation EXCEPT !.currentProxy =
                    (local[r].currentProxy + 1) % Len(rotation.proxyList)]
  /\ pc' = [pc EXCEPT ![r] = "respond"]
  /\ UNCHANGED << prog, csv, extVars, mainVars, jobVars, jobsMutex, tokens, wg,
                  local, errorLogged, fetched, histVars >>

\* the request after its OnRequest callback: it fails (OnError logs it), or
\* the page arrives and the .job_seen_beacon callback appends the job of each
\* of its listings under js.jobsMutex (the appends of one page are taken
\* together)
PagedFetch(r) ==
  /\ prog = "paged"
  /\ pc[r] = "respond"
  /\ \/ /\ errorLogged' = TRUE
        /\ pc' = [pc EXCEPT ![r] = "done"]
        /\ collectorWg' = collectorWg - 1
        /\ UNCHANGED << jobs, fetched >>
     \/ \E n \in {0, PageSize} :
          /\ jobs' = jobs \o [k \in 1..n |->
                        [Title |-> "FrontEnd Engineer", Company |-> "Acme",
                         Location |-> "India", Description |-> "", Salary |-> "",
                         PostedDate |-> "", URL |-> r]]
          /\ fetched' = fetched + n
          /\ pc' = [pc EXCEPT ![r] = "links"]
          /\ UNCHANGED << collectorWg, errorLogged >>
  /\ UNCHANGED << prog, rotation, csv, redisVars, mainVars, seenJobs, jobsMutex, tokens, wg,
                  local, histVars >>

\* the a.page callback of the page of request r: with a link on the page and
\* len(js.jobs) < 100, e.Request.Visit starts the request of the next page,
\* unless the depth limit refuses it; then the request r is done
PagedPagination(r) ==
  /\ prog = "paged"
  /\ pc[r] = "links"
  /\ local' = [local EXCEPT ![r].len = Len(jobs)]
  /\ \/ /\ Len(jobs) < JobCap
        /\ r[2] = 1
        /\ pc' = [pc EXCEPT ![r] = "done", ![<<r[1], 2>>] = "fetch"]
        /\ UNCHANGED collectorWg
     \/ /\ pc' = [pc EXCEPT ![r] = "done"]
        /\ collectorWg' = collectorWg - 1
  /\ UNCHANGED << prog, rotation, csv, redisVars, mainVars, jobVars, jobsMutex, tokens, wg, errorLogged,
                  fetched, histVars >>

\* ScrapeIndeed: wg.Wait(); js.collector.Wait(); return nil
PagedWait ==
  /\ prog = "paged"
  /\ mainpc = "wait"
  /\ wg = 0
  /\ collectorWg = 0
  /\ mainpc' = "returned"
  /\ ret' = "nil"
  /\ UNCHANGED << prog, rotation, csv, extVars, iter, jobVars, jobsMutex, tokens, wg, pc, local,
                  errorLogged, fetched, histVars >>

NextPaged ==
  \/ PagedLaunch
  \/ PagedRefill
  \/ PagedWait
  \/ \E i \in 1..NumPages : PagedVisit(i)
  \/ \E r \in (1..NumPages) \X {1, 2} :
       \/ PagedOnRequest(r)
       \/ PagedRotate(r)
       \/ PagedFetch(r)
       \/ PagedPagination(r)

SpecPaged == InitPaged /\ [][NextPaged]_vars

(***************************************************************************)
(* Notifying scraper (4jobswithnotification.go, second program): main runs *)
(* ScrapeAllSources, which only generates sample jobs, then                *)
(* PrintEnhancedStats, SaveToCSV and SendNotifications, all on the main    *)
(* goroutine.                                                              *)
(***************************************************************************)
\* iterations of the sample loop that are explored (the program runs 25)
NumNotifierSamples == 2

\* NewJobScraper and loadNotificationConfig: the defaults enable the email
\* and disable WhatsApp, and notification_config.json overrides them; twilio
\* says whether TWILIO_ACCOUNT_SID and TWILIO_AUTH_TOKEN are both set.
\* local.email and local.whatsapp hold what the two senders did, local.errors
\* the number of "notification error" lines SendNotifications logged.
InitNotifier ==
  /\ prog = "notifier"
  /\ csv = NoFile
  /\ rotation = NoProxies
  /\ mainpc = "samples"
  /\ iter = 0
  /\ jobs = << >>
  /\ seenJobs = {}
  /\ jobsMutex = NoHolder
  /\ tokens = 3
  /\ wg = 0
  /\ pc = << >>
  /\ \E email \in BOOLEAN, whatsapp \in BOOLEAN, twilio \in BOOLEAN :
       local = [newJobsCount |-> 0, EnableEmail |-> email,
                EnableWhatsApp |-> whatsapp, twilio |-> twilio,
                email |-> "none", whatsapp |-> "none", errors |-> 0]
  /\ ret = NoRet
  /\ errorLogged = FALSE
  /\ fetched = 0
  /\ submitted = {}
  /\ firstJob = << >>
  /\ collectorWg = << >>
  /\ handlers = << >>
  /\ redis = {}

\* the same iteration, but with an addJob that does not count the job
NotifierGenerateSample_NoCount ==
  /\ prog = "notifier"
  /\ mainpc = "samples"
  /\ \/ /\ iter < NumNotifierSamples
        /\ \E template \in SampleTemplates, company \in SampleCompanies,
              platform \in SamplePlatforms,
              variation \in {"", " - Remote"} :
             LET job == [SampleJob(template, company, platform)
                           EXCEPT !.Title = @ \o variation]
                 js == AddJobBody(job, JobKey(job) \in seenJobs,
                                  [jobs |-> jobs, seenJobs |-> seenJobs])
             IN /\ jobs' = js.jobs
                /\ seenJobs' = js.seenJobs
        /\ iter' = iter + 1
        /\ UNCHANGED << mainpc, ret, local >>
     \/ /\ iter = NumNotifierSamples
        /\ mainpc' = "returned"
        /\ ret' = "nil"
        /\ UNCHANGED << iter, jobVars, local >>
  /\ UNCHANGED << prog, rotation, csv, extVars, jobsMutex, tokens, wg, pc, errorLogged,
                  fetched, histVars >>

\* ScrapeAllSources: one iteration of the loop of generateMoreSampleJobs,
\* whose title may get a variation appended, with its addJob call (append,
\* mark seen and js.newJobsCount++ for an ID not seen); after the last
\* iteration ScrapeAllSources returns nil
NotifierGenerateSample ==
  /\ prog = "notifier"
  /\ mainpc = "samples"
  /\ \/ /\ iter < NumNotifierSamples
        /\ \E template \in SampleTemplates, company \in SampleCompanies,
              platform \in SamplePlatforms,
              variation \in {"", " - Remote"} :
             LET job == [SampleJob(template, company, platform)
                           EXCEPT !.Title = @ \o variation]
                 seen == JobKey(job) \in seenJobs
                 js == AddJobBody(job, seen,
                                  [jobs |-> jobs, seenJobs |-> seenJobs])
             IN /\ jobs' = js.jobs
                /\ seenJobs' = js.seenJobs
                /\ local' = [local EXCEPT !.newJobsCount =
                                            IF seen THEN @ ELSE @ + 1]
        /\ iter' = iter + 1
        /\ UNCHANGED << mainpc, ret >>
     \/ /\ iter = NumNotifierSamples
        /\ mainpc' = "returned"
        /\ ret' = "nil"
        /\ UNCHANGED << iter, jobVars, local >>
  /\ UNCHANGED << prog, rotation, csv, extVars, jobsMutex, tokens, wg, pc, errorLogged,
                  fetched, histVars >>

\* main: PrintEnhancedStats, which only reads, and SaveToCSV(filename) with
\* log.Fatalf on its error; the outcomes of SaveToCSV are those of the
\* advanced scraper, whose SaveToCSV has the same text
NotifierSaveToCSV ==
  /\ prog = "notifier"
  /\ mainpc = "returned"
  /\ \/ /\ csv' = [csv EXCEPT !.ioerr = TRUE]
        /\ ret' = "failed to create CSV file"
        /\ mainpc' = "fatal" /\ errorLogged' = TRUE
     \/ /\ csv' = [created |-> TRUE, rows |-> CSVRows(jobs), ioerr |-> FALSE]
        /\ ret' = "nil"
        /\ mainpc' = "saved" /\ UNCHANGED errorLogged
     \/ \E n \in 0..Len(jobs) :
          /\ csv' = [created |-> TRUE, rows |-> SubSeq(CSVRows(jobs), 1, n),
                     ioerr |-> TRUE]
          /\ \/ /\ Len(jobs) >= 1
                /\ ret' = "failed to write job record"
                /\ mainpc' = "fatal" /\ errorLogged' = TRUE
             \/ /\ ret' = "nil"
                /\ mainpc' = "saved" /\ UNCHANGED errorLogged
  /\ UNCHANGED << prog, rotation, extVars, iter, jobVars, jobsMutex, tokens, wg, pc,
                  local, fetched, histVars >>

\* the same call, but one that returns on the error of the email and leaves
\* the WhatsApp sender out
SendNotifications_StopOnEmailFailure ==
  /\ prog = "notifier"
  /\ mainpc = "saved"
  /\ mainpc' = "notified"
  /\ IF local.newJobsCount = 0
       THEN UNCHANGED local
       ELSE \E email \in IF local.EnableEmail THEN {"failed", "sent"}
                         ELSE {"disabled"},
               whatsapp \in IF ~local.EnableWhatsApp THEN {"disabled"}
                            ELSE IF ~local.twilio THEN {"skipped"}
                            ELSE {"no request", "failed", "rejected", "sent"} :
              local' = [local EXCEPT
                          !.email = email,
                          !.whatsapp = IF email = "failed" THEN "none"
                                       ELSE whatsapp,
                          !.errors = IF email = "failed" THEN 1
                                     ELSE IF whatsapp \in {"no request", "failed"}
                                       THEN 1 ELSE 0]
  /\ UNCHANGED << prog, rotation, csv, extVars, iter, ret, jobVars, jobsMutex, tokens,
                  wg, pc, errorLogged, fetched, histVars >>

\* main: scraper.SendNotifications().  With js.newJobsCount = 0 it returns at
\* once.  Else sendEmailNotification returns nil when the email is disabled,
\* the error of smtp.SendMail, or nil after sending; then
\* sendWhatsAppNotification returns nil when WhatsApp is disabled or the
\* Twilio credentials are missing, the error of http.NewRequest or of
\* client.Do, or nil after a response, whose status outside 2xx is only
\* logged.  SendNotifications logs each returned error and returns.
SendNotifications ==
  /\ prog = "notifier"
  /\ mainpc = "saved"
  /\ mainpc' = "notified"
  /\ IF local.newJobsCount = 0
       THEN UNCHANGED local
       ELSE \E email \in IF local.EnableEmail THEN {"failed", "sent"}
                         ELSE {"disabled"},
               whatsapp \in IF ~local.EnableWhatsApp THEN {"disabled"}
                            ELSE IF ~local.twilio THEN {"skipped"}
                            ELSE {"no request", "failed", "rejected", "sent"} :
              local' = [local EXCEPT
                          !.email = email,
                          !.whatsapp = whatsapp,
                          !.errors = (IF email = "failed" THEN 1 ELSE 0) +
                                     (IF whatsapp \in {"no request", "failed"}
                                        THEN 1 ELSE 0)]
  /\ UNCHANGED << prog, rotation, csv, extVars, iter, ret, jobVars, jobsMutex, tokens,
                  wg, pc, errorLogged, fetched, histVars >>

NextNotifier ==
  \/ NotifierGenerateSample
  \/ NotifierSaveToCSV
  \/ SendNotifications

SpecNotifier == InitNotifier /\ [][NextNotifier]_vars

(***************************************************************************)
(* Filtering scraper (part_003, first program): main scrapes its one       *)
(* platform in a goroutine, filters the jobs and, with a job left, saves   *)
(* the CSV.  The notification flags have their default, false.             *)
(***************************************************************************)
\* matchesFilters with Filters.Location = "India", as main sets it
matchesFilters(job) ==
  LET locationMatch == Contains(ToLower(job.Location), ToLower("India"))
      isRemote == Contains(ToLower(job.Location), "remote")
      isFresher == \/ Contains(ToLower(job.Title), "fresher")
                   \/ Contains(ToLower(job.Title), "entry level")
  IN (locationMatch \/ isRemote) /\ isFresher

\* FilterJobs: the jobs of the slice that match, in the order of the slice
FilterJobs(js) == SelectSeq(js, matchesFilters)

\* JobScraper.SaveToCSV: the rows handed to writer.Write, headers first and
\* then one record per job of js.jobs
FilterCSVRows(js) ==
  << << "Platform", "Title", "Company", "Location", "Description", "Salary",
        "PostedDate", "URL" >> >> \o
  [k \in 1..Len(js) |->
     << js[k].Platform, js[k].Title, js[k].Company, js[k].Location,
        js[k].Description, js[k].Salary, js[k].PostedDate, js[k].URL >>]

\* main after NewExtendedJobScraper, with the goroutine of the platform
\* started; local holds main's filteredJobs
InitFilter ==
  /\ prog = "filter"
  /\ csv = NoFile
  /\ rotation = NoProxies
  /\ mainpc = "scrape"
  /\ iter = 0
  /\ jobs = << >>
  /\ seenJobs = {}
  /\ jobsMutex = NoHolder
  /\ tokens = 1
  /\ wg = 1
  /\ pc = << >>
  /\ local = [filteredJobs |-> << >>]
  /\ ret = NoRet
  /\ errorLogged = FALSE
  /\ fetched = 0
  /\ submitted = {}
  /\ firstJob = << >>
  /\ collectorWg = 0
  /\ handlers = << >>
  /\ redis = {}

\* Scrape: the OnHTML callback on a listing element of the page builds the
\* Job with sanitizeText and appends it under js.jobsMutex if it has a title
\* and a company
FilterOnHTML ==
  /\ prog = "filter"
  /\ mainpc = "scrape"
  /\ wg = 1
  /\ fetched < MaxElems
  /\ fetched' = fetched + 1
  /\ \E e \in { [title |-> " Fresher Developer ", company |-> "Acme",
                 location |-> "Bangalore, India"],
                [title |-> "Entry Level Analyst", company |-> "Initech",
                 location |-> "Remote"],
                [title |-> "Fresher Developer", company |-> "Acme",
                 location |-> "Berlin"],
                [title |-> "Senior Engineer", company |-> "Initech",
                 location |-> "Remote"],
                [title |-> "Fresher Developer", company |-> " ",
                 location |-> "Remote"] } :
       LET job == [Platform |-> "Indeed", Title |-> TrimSpace(e.title),
                   Company |-> TrimSpace(e.company),
                   Location |-> TrimSpace(e.location), Description |-> "",
                   Salary |-> "", PostedDate |-> "",
                   URL |-> "https://www.indeed.com/jobs?q="
                             \o QueryEscape("software engineer") \o "&l="
                             \o QueryEscape("remote")]
       IN jobs' = IF job.Title # "" /\ job.Company # ""
                    THEN Append(jobs, job) ELSE jobs
  /\ UNCHANGED << prog, rotation, csv, extVars, mainVars, seenJobs, jobsMutex,
                  tokens, wg, pc, local, errorLogged, histVars >>

\* Scrape returns after js.collector.Wait(), with the error of Visit logged
\* if there was one; the deferred wg.Done() lets wg.Wait() of main return
FilterScrapeDone ==
  /\ prog = "filter"
  /\ mainpc = "scrape"
  /\ wg = 1
  /\ wg' = 0
  /\ mainpc' = "returned"
  /\ \/ fetched = 0 /\ errorLogged' = TRUE
     \/ UNCHANGED errorLogged
  /\ UNCHANGED << prog, rotation, csv, extVars, iter, ret, jobVars, jobsMutex,
                  tokens, pc, local, fetched, histVars >>

\* main after wg.Wait(): filteredJobs := scraper.FilterJobs(); with a job in
\* filteredJobs, scraper.SaveToCSV(*outputFile), which writes js.jobs:
\* os.Create fails (log.Fatalf), or every row reaches the file, or the file
\* stops taking writes after n rows, which is logged or lost and SaveToCSV
\* returns all the same
FilterMain ==
  /\ prog = "filter"
  /\ mainpc = "returned"
  /\ local' = [local EXCEPT !.filteredJobs = FilterJobs(jobs)]
  /\ IF Len(FilterJobs(jobs)) = 0
       THEN mainpc' = "done" /\ UNCHANGED << csv, errorLogged >>
       ELSE \/ /\ csv' = [csv EXCEPT !.ioerr = TRUE]
               /\ mainpc' = "fatal" /\ errorLogged' = TRUE
            \/ /\ csv' = [created |-> TRUE, rows |-> FilterCSVRows(jobs),
                          ioerr |-> FALSE]
               /\ mainpc' = "saved" /\ UNCHANGED errorLogged
            \/ \E n \in 0..Len(jobs) :
                 /\ csv' = [created |-> TRUE,
                            rows |-> SubSeq(FilterCSVRows(jobs), 1, n),
                            ioerr |-> TRUE]
                 /\ mainpc' = "saved" /\ UNCHANGED errorLogged
  /\ UNCHANGED << prog, rotation, extVars, iter, ret, jobVars, jobsMutex,
                  tokens, wg, pc, fetched, histVars >>

NextFilter == FilterOnHTML \/ FilterScrapeDone \/ FilterMain

SpecFilter == InitFilter /\ [][NextFilter]_vars

\* ---------------------------------------------------------------------------
\* Properties
\* ---------------------------------------------------------------------------

\* the entries of js.jobs with the company and title of job
SameListing(job) ==
  { i \in 1..Len(jobs) : jobs[i].Company = job.Company /\ jobs[i].Title = job.Title }

\* the entries of js.jobs with the ID id
WithID(id) == { i \in 1..Len(jobs) : jobs[i].ID = id }

\* C1: when source goroutines call addJob with the same company and title, at
\* most one of the records is ever in js.jobs, and exactly one is there once
\* no such call is running any more.
C1_OnePerListing ==
  \A j \in submitted :
    /\ Cardinality(SameListing(j)) <= 1
    /\ (\A s \in SourceSet : pc[s] # "locked") => Cardinality(SameListing(j)) = 1

\* two sources have called addJob with one company and title, all calls are
\* over, and js.jobs holds one entry for it
C1_Witness ==
  /\ prog = "advanced"
  /\ \A s \in SourceSet : pc[s] # "locked"
  /\ \E a, b \in submitted :
       /\ a.Platform # b.Platform
       /\ a.Company = b.Company /\ a.Title = b.Title
       /\ Cardinality(SameListing(a)) = 1

\* C2: addJob is idempotent per job ID: js.jobs holds at most one entry per
\* ID, the entry is the record of the first call made with that ID (with its
\* ID field set), and js.seenJobs holds the IDs of the entries.
C2_FirstKept ==
  /\ \A id \in DOMAIN firstJob :
       /\ Cardinality(WithID(id)) <= 1
       /\ \A i \in WithID(id) : jobs[i] = [firstJob[id] EXCEPT !.ID = id]
       /\ (\A s \in SourceSet : pc[s] # "locked") => Cardinality(WithID(id)) = 1
  /\ seenJobs = { jobs[i].ID : i \in 1..Len(jobs) }

\* addJob was called with two different records of one ID, and js.jobs holds
\* the first of them only
C2_Witness ==
  /\ prog = "advanced"
  /\ \A s \in SourceSet : pc[s] # "locked"
  /\ \E a, b \in submitted :
       /\ a # b
       /\ JobKey(a) = JobKey(b)
       /\ JobKey(a) \in DOMAIN firstJob
       /\ firstJob[JobKey(a)] = a
       /\ \E i \in 1..Len(jobs) : jobs[i] = [a EXCEPT !.ID = JobKey(a)]
       /\ ~ \E i \in 1..Len(jobs) : jobs[i] = [b EXCEPT !.ID = JobKey(b)]

\* C3: every record that reaches addJob, the sample records of
\* generateMoreSampleJobs included, is one that isFresherJob accepts.
C3_ClassifiedFirst ==
  \A j \in submitted : isFresherJob(j.Title, j.Description)


\* the goroutines and requests a call has started and that are not over
Running == { t \in DOMAIN pc : pc[t] \notin {"unstarted", "done"} }

\* C4: ScrapeAllSources and ScrapeAll return only after every source goroutine
\* they launched (and every request it started) is over, and once the call has
\* returned no job is appended to the job list.
C4_ReturnAfterAll ==
  /\ [](mainpc = "returned" =>
          /\ Running = {}
          /\ \A t \in DOMAIN pc :
               (prog = "advanced" \/ t \in FresherPlatforms \X {0}) => pc[t] = "done")
  /\ [][mainpc = "returned" => jobs' = jobs]_vars

\* the call has returned and the job list holds a job that a source goroutine
\* appended
C4_Witness ==
  /\ mainpc = "returned"
  /\ \E i \in 1..Len(jobs) : jobs[i].Platform = "RemoteOK"

\* C5: whatever sources fail, ScrapeAllSources returns nil after every source
\* has run to its end, and js.jobs holds an entry for every job that a source
\* passed to addJob.
C5_FailuresIsolated ==
  mainpc = "returned" =>
    /\ ret = "nil"
    /\ \A s \in SourceSet : pc[s] = "done" /\ local[s].calls = 1
    /\ \A j \in submitted : WithID(JobKey(j)) # {}

\* ScrapeAllSources has returned nil, a source failed, and js.jobs holds a job
\* of a source that did not
C5_Witness ==
  /\ prog = "advanced"
  /\ mainpc = "returned"
  /\ ret = "nil"
  /\ errorLogged
  /\ \E i \in 1..Len(jobs) : jobs[i].Company = "Acme"

\* the sources whose scrape function has been called
Called == { s \in SourceSet : local[s].calls >= 1 }

\* C6: a source goroutine leaves js.rateLimiter.Wait only by taking a token
\* (with the bucket empty it stays there until a refill) and it then calls
\* its scrape function; no source is skipped and none fails on the limiter:
\* a goroutine past the wait has called its scrape function once, and when
\* ScrapeAllSources returns each of the five has been called exactly once.
C6_RateLimitBlocks ==
  /\ [][\A s \in SourceSet :
          (pc[s] = "limiter" /\ pc'[s] # "limiter") =>
            /\ tokens > 0
            /\ tokens' = tokens - 1
            /\ pc'[s] = "scrape"
            /\ local'[s].calls = local[s].calls + 1]_vars
  /\ [](\A s \in SourceSet :
          local[s].calls = (IF pc[s] \in {"unstarted", "limiter"} THEN 0 ELSE 1))
  /\ [](mainpc = "returned" => \A s \in SourceSet : local[s].calls = 1)

\* ScrapeAllSources has returned after more scrape functions were called than
\* the bucket held tokens: at least one goroutine waited for a refill and
\* went on
C6_Witness ==
  /\ prog = "advanced"
  /\ mainpc = "returned"
  /\ Cardinality(Called) = Len(Sources)
  /\ Cardinality(Called) > BurstAdv

\* C7: isFresherJob (of the advanced and of the fresher scraper) returns
\* false when the lowercased title and description hold an exclude keyword.
C7_ExclusionWins ==
  mainpc = "returned" =>
    LET combined == ToLower(local.title \o " " \o local.description) IN
    /\ ContainsAny(combined, excludeKeywords) => ~ret.isFresherJob
    /\ ContainsAny(combined, fjsExcludeKeywords) => ~ret.fjsIsFresherJob

\* isFresherJob has returned false on a text with an exclude keyword and a
\* fresher keyword
C7_Witness ==
  /\ prog = "classifier"
  /\ mainpc = "returned"
  /\ LET combined == ToLower(local.title \o " " \o local.description) IN
     /\ ContainsAny(combined, excludeKeywords)
     /\ ContainsAny(combined, fresherKeywords)
     /\ ~ret.isFresherJob


\* C8: in the advanced scraper the identity of a record is its company and
\* title: js.jobs never holds two entries with one company and title, however
\* the records passed to addJob differ in platform, location, description,
\* salary or URL, and every record passed to addJob has the entry of its
\* company and title there (the later ones count as its duplicates).
C8_CompanyTitleOnly ==
  /\ \A i, k \in 1..Len(jobs) :
       (jobs[i].Company = jobs[k].Company /\ jobs[i].Title = jobs[k].Title) => i = k
  /\ (\A s \in SourceSet : pc[s] # "locked") =>
       \A j \in submitted :
         \E i \in 1..Len(jobs) :
           jobs[i].Company = j.Company /\ jobs[i].Title = j.Title

\* addJob was called with two records of one company and title that differ in
\* platform, description and URL, and js.jobs holds one entry for them
C8_Witness ==
  /\ prog = "advanced"
  /\ \A s \in SourceSet : pc[s] # "locked"
  /\ \E a, b \in submitted :
       /\ a.Company = b.Company /\ a.Title = b.Title
       /\ a.Platform # b.Platform
       /\ a.Description # b.Description
       /\ a.URL # b.URL
       /\ Cardinality(SameListing(a)) = 1
       /\ \A i \in SameListing(a) : jobs[i].ID = JobKey(b)

\* what the specification calls normalising: lowercase, runs of whitespace
\* collapsed to one space, characters that are no letter and no digit (and no
\* space) removed
RECURSIVE KeepAlnumSpace(_)
KeepAlnumSpace(s) ==
  IF s = "" THEN ""
  ELSE LET c == CharAt(s, 1) IN
       (IF InChars(c, LowerChars) \/ InChars(c, DigitChars) \/ IsSpace(c) THEN c ELSE "")
         \o KeepAlnumSpace(SubSeq(s, 2, Len(s)))

Normalized(s) == CollapseSpaces(TrimSpace(KeepAlnumSpace(ToLower(s))))

C11_NewAtMostOnce ==
  prog = "redis" =>
    \A i, k \in 1..Len(jobs) :
      RedisJobID(jobs[i]) = RedisJobID(jobs[k]) => i = k

\* the records of the sequence s
Elems(s) == { s[i] : i \in 1..Len(s) }

\* C12: in the notification scraper, when main's wg.Wait() has returned and
\* the CSV is written, the request of every Visit is over and every listing a
\* callback extracted is in scraper.jobs, in allJobs and in the CSV; no
\* callback appends after scraper.jobs was copied, and the copy is never made
\* while a callback holds js.jobsMutex for its append.
C12_CopyAfterCallbacks ==
  /\ [](prog = "notify" /\ mainpc = "returned" =>
          /\ \A t \in DOMAIN pc : pc[t] \in {"unstarted", "done"}
          /\ submitted \subseteq Elems(jobs)
          /\ submitted \subseteq Elems(ret.csv))
  /\ [][prog = "notify" =>
          \A t \in DOMAIN pc :
            /\ (pc[t] = "copy" /\ pc'[t] = "done") => jobsMutex = NoHolder
            /\ pc[t] = "done" /\ t[2] = 0 => jobs' = jobs]_vars

\* C13: in the multi-platform scraper with one shared collector, the Platform
\* field of every entry of js.jobs names the platform whose search URL the
\* entry's page was fetched from, and once the run is over every listing
\* element of a fetched page has exactly one entry.
C13_ParsingLocal ==
  prog = "multi" =>
    /\ \A i \in 1..Len(jobs) : \E p \in 1..Len(MultiPlatforms) :
         jobs[i].Platform = MultiPlatforms[p].Name /\ jobs[i].URL = MultiURL(p)
    /\ mainpc = "returned" => Len(jobs) = fetched

\* the goroutines that run Scrape in the retrying scraper
RetryScrapers == { t \in DOMAIN pc : t[2] = 0 }

\* C14 as stated: every collector.Visit call of the retrying scraper, each
\* retry included, is preceded by its own successful rateLimiter.Wait: no
\* Scrape call has called Visit more often than it has been granted a token.
C14_WaitPerVisit ==
  prog = "retry" => \A t \in RetryScrapers : local[t].visits <= local[t].waits

\* C14 (amended): a Scrape call leaves rateLimiter.Wait only by taking a
\* token, it does so once, before its first Visit, and the calls of Visit,
\* retries included, take no token; a request is started only by a call that
\* was granted its token.
C14_WaitPerScrape ==
  /\ [][prog = "retry" =>
          \A t \in RetryScrapers :
            /\ (pc[t] = "limiter" /\ pc'[t] # "limiter") =>
                 tokens > 0 /\ tokens' = tokens - 1 /\ pc'[t] = "visit"
            /\ local'[t].visits > local[t].visits =>
                 tokens' = tokens /\ local'[t].waits = local[t].waits]_vars
  /\ [](prog = "retry" =>
          \A t \in RetryScrapers :
            /\ local[t].visits > 0 => local[t].waits = 1
            /\ pc[<<t[1], 1>>] # "unstarted" => local[t].waits = 1)

\* a Scrape call has called Visit three times on one token
C14_Witness ==
  /\ prog = "retry"
  /\ \E t \in RetryScrapers : local[t].visits = maxRetries /\ local[t].waits = 1

\* C15: Scrape of the retrying scraper calls Visit at most 3 times, stops at
\* the first call that succeeds, retries only after a call that failed, and
\* sleeps only between two consecutive attempts: 3 s after the first failure
\* and 6 s after the second.
C15_BackoffBetweenAttempts ==
  prog = "retry" =>
    \A t \in RetryScrapers :
      /\ local[t].visits <= maxRetries
      /\ local[t].visits \in {local[t].attempt, local[t].attempt + 1}
      /\ pc[<<t[1], 1>>] # "unstarted" =>
           local[t].visits = local[t].attempt + 1 /\ pc[t] \in {"cwait", "done"}
      /\ \E n \in 0..2 : local[t].sleeps = SubSeq(<<3, 6>>, 1, n)
      /\ pc[t] \in {"cwait", "done"} => Len(local[t].sleeps) = local[t].visits - 1

\* C16: ScrapeJobs of the LinkedIn scraper returns nil only after a page was
\* fetched with status 200 and parsed; when it ends without a 200 response,
\* as after maxAttempts answers 429, it returns a non-nil error.
C16_NilOnlyAfterPage ==
  (prog = "linkedin" /\ mainpc \in {"returned", "saved", "fatal"} /\ ret = "nil")
    => local.status = 200

\* C17: in the Indeed scraper a run whose scrape succeeds and finds no
\* listing is not an error: SaveToCSV returns nil, the CSV holds the header
\* only and main reports the completion with 0 jobs.
C17_EmptyIsNotAnError ==
  (prog = "indeed" /\ mainpc = "exited" /\ ret = "nil" /\ jobs = << >>)
    => /\ local.saveErr = "nil"
       /\ Len(local.csv) = 1
       /\ local.completed = 0

\* C18: in the Indeed scraper of main.go the cap is enforced: js.jobs never
\* holds more than JobCap jobs, whatever pages are in flight when the cap is
\* reached.
C18_CapEnforced ==
  prog = "paged" => Len(jobs) <= JobCap

\* C19: the Remote Fresher Jobs Scraper avoids duplicate listings: no two
\* entries of fjs.jobs have the same platform, company and title.
C19_NoDuplicateListing ==
  prog = "fresher" =>
    \A i, k \in 1..Len(jobs) :
      (jobs[i].Platform = jobs[k].Platform /\ jobs[i].Company = jobs[k].Company
         /\ jobs[i].Title = jobs[k].Title) => i = k

\* C20: during a run of the advanced remote scraper no step (addJob, the
\* sample generator, ScrapeAllSources, PrintEnhancedStats, SaveToCSV) removes
\* a key from js.seenJobs or removes, reorders or modifies an entry of
\* js.jobs: every step leaves js.jobs a prefix of its new value.
C20_AppendOnly ==
  [][prog = "advanced" =>
       /\ seenJobs \subseteq seenJobs'
       /\ Len(jobs') >= Len(jobs)
       /\ SubSeq(jobs', 1, Len(jobs)) = jobs]_vars

\* the statistics are printed and the CSV is saved with two jobs in js.jobs
\* and their two keys in js.seenJobs
C20_Witness ==
  /\ prog = "advanced"
  /\ mainpc = "saved"
  /\ Len(jobs) >= 2
  /\ Cardinality(seenJobs) = Len(jobs)

\* C21: in the notifying scraper a failure of the email or of the WhatsApp
\* notification is only logged.  SendNotifications returns normally, calls
\* the WhatsApp sender also after the email has failed, logs one line per
\* failed sender, and leaves js.jobs, js.seenJobs and js.newJobsCount as they
\* were.
C21_NotificationFailureIsLogged ==
  [][prog = "notifier" /\ mainpc = "saved" /\ mainpc' # mainpc =>
       /\ mainpc' = "notified"
       /\ jobs' = jobs
       /\ seenJobs' = seenJobs
       /\ local'.newJobsCount = local.newJobsCount
       /\ errorLogged' = errorLogged
       /\ local'.email = "failed" =>
            local'.whatsapp # "none" /\ local'.errors >= 1
       /\ local'.whatsapp \in {"no request", "failed"} => local'.errors >= 1]_vars

\* the email has failed and the WhatsApp message was sent, or has failed too
C21_Witness ==
  /\ prog = "notifier"
  /\ mainpc = "notified"
  /\ local.email = "failed"
  /\ local.whatsapp \in {"sent", "failed"}
  /\ Len(jobs) >= 1

\* C22: SaveToCSV of the advanced remote scraper returns an error whenever
\* the file could not be created or a row could not be written, and, whether
\* it succeeds or fails, it leaves js.jobs and js.seenJobs as they were and
\* js.jobsMutex released.
C22_SaveReportsFailure ==
  [][prog = "advanced" /\ mainpc = "stats" /\ mainpc' # mainpc =>
       /\ jobs' = jobs
       /\ seenJobs' = seenJobs
       /\ jobsMutex' = NoHolder
       /\ csv'.ioerr => ret' # "nil" /\ mainpc' = "fatal"]_vars

\* the text SaveToCSV writes in the column named by a header
ColumnText(job, header) ==
  IF header \in {"IsRemote", "IsFresher"}
    THEN (IF job[header] THEN "true" ELSE "false")
    ELSE job[header]

RECURSIVE Squeeze(_)
Squeeze(s) ==
  IF Len(s) <= 1 THEN s
  ELSE LET half == Len(s) \div 2
           a == Squeeze(SubSeq(s, 1, half))
           b == Squeeze(SubSeq(s, half + 1, Len(s)))
       IN IF SubSeq(a, Len(a), Len(a)) = " " /\ SubSeq(b, 1, 1) = " "
            THEN a \o SubSeq(b, 2, Len(b))
            ELSE a \o b

\* two texts that differ in the case of their letters and in the length of
\* their runs of spaces only
SameText(a, b) == ToLower(Squeeze(a)) = ToLower(Squeeze(b))

\* C24: isFresherJob and isRemoteJob are case-insensitive and
\* whitespace-tolerant: a title, description and location that differ from
\* the classified ones in the case of letters and in the length of the runs
\* of spaces only get the same two results.
C24_CaseAndSpaceTolerant ==
  prog = "classifier" /\ mainpc = "returned" =>
    \A title \in ClassifierTitles, description \in ClassifierDescriptions,
       location \in ClassifierLocations :
      (/\ SameText(title, local.title)
       /\ SameText(description, local.description)
       /\ SameText(location, local.location))
      => /\ isFresherJob(title, description) = ret.isFresherJob
         /\ isRemoteJob(title, location, description) = ret.isRemoteJob

\* the text states an experience range from 0 to 1 or 2 years: a 0 that is
\* not the last digit of a longer number, a separator, 1 or 2, and "year"
ZeroToTwoYears(s) ==
  \E i \in 1..Len(s) :
    /\ CharAt(s, i) = "0"
    /\ i = 1 \/ CharAt(s, i - 1) \notin
                  {"0", "1", "2", "3", "4", "5", "6", "7", "8", "9"}
    /\ \E sep \in {" to ", "-", " - ", " "}, n \in {"1", "2"} :
         HasAt(s, i + 1, sep \o n \o " year")

\* C25: isFresherJob(title, description) is true exactly when the lowercased
\* text title + " " + description holds no exclude keyword and holds a
\* fresher keyword or a phrasing of 0 to 2 years of experience, entry level,
\* new grad or no experience; a text that only states a requirement above 2
\* years is rejected, and an empty description leaves the title to decide.
C25_FresherExactly ==
  prog = "classifier" /\ mainpc = "returned" =>
    LET combined == ToLower(local.title \o " " \o local.description) IN
    ret.isFresherJob =
      (/\ ~ContainsAny(combined, excludeKeywords)
       /\ \/ ContainsAny(combined, fresherKeywords)
          \/ ZeroToTwoYears(combined)
          \/ MatchOptSep("entry", "level", combined)
          \/ MatchOptSep("new", "grad", combined)
          \/ MatchOptSep("no", "experience", combined))

\* C26: in the notifying scraper js.jobs has as many entries as js.seenJobs
\* has keys and as js.newJobsCount counts, in every state, so that
\* SendNotifications has sent a notification exactly when a job was admitted.
C26_SendsIffAdmitted ==
  prog = "notifier" =>
    /\ Len(jobs) = Cardinality(seenJobs)
    /\ Len(jobs) = local.newJobsCount
    /\ mainpc = "notified" =>
         ((local.email = "sent" \/ local.whatsapp = "sent") <=> Len(jobs) >= 1)

\* C26, amended: in the notifying scraper js.jobs has as many entries as
\* js.seenJobs has keys and as js.newJobsCount counts, in every state, so
\* that SendNotifications has called its two senders exactly when a job was
\* admitted; a sender that is disabled, not configured or failing sends
\* nothing.
C26_SendersRunIffAdmitted ==
  prog = "notifier" =>
    /\ Len(jobs) = Cardinality(seenJobs)
    /\ Len(jobs) = local.newJobsCount
    /\ mainpc = "notified" =>
         /\ (local.email # "none" /\ local.whatsapp # "none") <=> Len(jobs) >= 1
         /\ local.email = "sent" => local.EnableEmail
         /\ local.whatsapp = "sent" => local.EnableWhatsApp /\ local.twilio

\* the second sample was a duplicate of the first, one job was admitted and
\* the senders have run
C26_Witness ==
  /\ prog = "notifier"
  /\ mainpc = "notified"
  /\ iter = NumNotifierSamples
  /\ Len(jobs) = 1
  /\ local.newJobsCount = 1
  /\ local.email # "none"
  /\ local.whatsapp # "none"

\* C27: generateJobID gives two different IDs to two records whose lowercased
\* companies differ or whose lowercased titles differ, so that addJob never
\* takes a listing for the duplicate of another listing.
C27_DifferentRecordsDifferentIDs ==
  prog = "identity" /\ mainpc = "returned" =>
    ((\/ ToLower(local.a.company) # ToLower(local.b.company)
      \/ ToLower(local.a.title) # ToLower(local.b.title))
     => ret.a # ret.b)

\* C28: getNextProxy hands out the proxies in strict round-robin order, also
\* when the request callbacks that call it run concurrently: with n proxies
\* the k-th call returns proxyList[(k-1) mod n] and js.currentProxy stays in
\* 0..n-1; with an empty list every call returns "" and js.currentProxy
\* stays as it is.
C28_StrictRoundRobin ==
  prog = "paged" =>
    LET n == Len(rotation.proxyList) IN
    IF n = 0
      THEN /\ rotation.currentProxy = 0
           /\ \A k \in 1..Len(rotation.returned) : rotation.returned[k] = ""
      ELSE /\ rotation.currentProxy \in 0..(n - 1)
           /\ \A k \in 1..Len(rotation.returned) :
                rotation.returned[k] = rotation.proxyList[((k - 1) % n) + 1]

\* C29: in the filtering scraper the CSV that main has written without an
\* input/output failure holds, after its header, exactly the jobs FilterJobs
\* returned, in their order in js.jobs: the entries of js.jobs that satisfy
\* matchesFilters, and no job that fails the filters.
C29_OnlyFilteredJobsSaved ==
  prog = "filter" /\ csv.created /\ ~csv.ioerr =>
    /\ local.filteredJobs = SelectSeq(jobs, matchesFilters)
    /\ Len(csv.rows) = Len(local.filteredJobs) + 1
    /\ \A k \in 1..Len(local.filteredJobs) :
         /\ k + 1 <= Len(csv.rows)
         /\ csv.rows[k + 1][2] = local.filteredJobs[k].Title
         /\ csv.rows[k + 1][3] = local.filteredJobs[k].Company
         /\ csv.rows[k + 1][4] = local.filteredJobs[k].Location

\* the steps that are left to ScrapeAllSources and to main at most: what the
\* main goroutine and every source goroutine still have to do, plus the
\* listings that are still to come and the wait for a token
StepsLeft ==
  LET ofMain == CASE mainpc = "samples" -> 5 + (NumSamples - iter)
                  [] mainpc = "launch" -> 4
                  [] mainpc = "wgwait" -> 3
                  [] mainpc = "returned" -> 2
                  [] mainpc = "stats" -> 1
                  [] OTHER -> 0
      ofSource == [p \in {"unstarted", "limiter", "scrape", "html", "addJob",
                          "locked", "done"} |->
                     CASE p = "unstarted" -> 6
                       [] p = "limiter" -> 5
                       [] p = "scrape" -> 3
                       [] p = "html" -> 2
                       [] p = "addJob" -> 4
                       [] p = "locked" -> 3
                       [] OTHER -> 0]
      RECURSIVE Sum(_)
      Sum(S) == IF S = {} THEN 0
                ELSE LET s == CHOOSE x \in S : TRUE
                     IN ofSource[pc[s]] + Sum(S \ {s})
  IN ofMain + Sum(SourceSet) + 3 * (MaxElems - fetched)
       + (IF tokens = 0 THEN 1 ELSE 0)

\* a goroutine of ScrapeAllSources is not waiting: main in its two loops, or in
\* wg.Wait() with the counter at zero; a source goroutine outside addJob and
\* the rate limiter, or at the rate limiter, whose bucket has or gets a
\* token, or at the Lock of addJob with js.jobsMutex free
SomeGoroutineCanRun ==
  \/ mainpc = "samples" /\ iter <= NumSamples
  \/ mainpc = "launch" /\ iter <= Len(Sources)
  \/ mainpc = "wgwait" /\ wg = 0
  \/ \E s \in SourceSet :
       \/ pc[s] \in {"limiter", "scrape", "html", "locked"}
       \/ pc[s] = "addJob" /\ jobsMutex = NoHolder

\* C30: ScrapeAllSources terminates.  Every step of the main goroutine and of
\* a source goroutine brings the end nearer, so no run goes on for ever; as
\* long as ScrapeAllSources has not returned some goroutine can take a step,
\* so none is stuck on js.jobsMutex, on the rate limiter or in wg.Wait(); the
\* WaitGroup counts the goroutines that have not yet run wg.Done(), and the
\* mutex is held only by a goroutine inside addJob, which unlocks it.
C30_ScrapeAllSourcesTerminates ==
  /\ [](prog = "advanced" =>
          /\ mainpc \in {"samples", "launch", "wgwait"} => SomeGoroutineCanRun
          /\ mainpc \in {"wgwait", "returned", "stats", "saved", "fatal"} =>
               wg = Cardinality({s \in SourceSet : pc[s] # "done"})
          /\ jobsMutex # NoHolder => pc[jobsMutex] = "locked"
          /\ mainpc \in {"returned", "stats", "saved", "fatal"} =>
               \A s \in SourceSet : pc[s] = "done")
  /\ [][prog = "advanced" => StepsLeft' < StepsLeft]_vars

\* ScrapeAllSources has returned: every source goroutine is done, one of
\* them after an error of its Visit, and all the listings were handled
C30_Witness ==
  /\ prog = "advanced"
  /\ mainpc = "returned"
  /\ wg = 0
  /\ \A s \in SourceSet : pc[s] = "done"
  /\ errorLogged
  /\ fetched = MaxElems
  /\ Len(jobs) >= 2

====
